---------------------------- MODULE Spec2Model ----------------------------
(***************************************************************************)
(* A model of the receipt text parsing core of receipt-parser              *)
(* (src/receipt_cleaner.py, src/config.py, src/models.py).                 *)
(*                                                                         *)
(* Text is modelled by TLA+ strings; Char(s, i) is the i-th character      *)
(* (1-based) as a one-character string.  Decimal amounts are modelled      *)
(* exactly, as a sign, an integer part and a fraction given by its         *)
(* numerator and its number of digits.                                     *)
(***************************************************************************)
EXTENDS Integers, Sequences, FiniteSets, TLC

-----------------------------------------------------------------------------
(* Characters and Python's str helpers                                     *)

Char(s, i) == SubSeq(s, i, i)

LowerOf ==
    [A |-> "a", B |-> "b", C |-> "c", D |-> "d", E |-> "e", F |-> "f",
     G |-> "g", H |-> "h", I |-> "i", J |-> "j", K |-> "k", L |-> "l",
     M |-> "m", N |-> "n", O |-> "o", P |-> "p", Q |-> "q", R |-> "r",
     S |-> "s", T |-> "t", U |-> "u", V |-> "v", W |-> "w", X |-> "x",
     Y |-> "y", Z |-> "z"]

UpperOf ==
    [a |-> "A", b |-> "B", c |-> "C", d |-> "D", e |-> "E", f |-> "F",
     g |-> "G", h |-> "H", i |-> "I", j |-> "J", k |-> "K", l |-> "L",
     m |-> "M", n |-> "N", o |-> "O", p |-> "P", q |-> "Q", r |-> "R",
     s |-> "S", t |-> "T", u |-> "U", v |-> "V", w |-> "W", x |-> "X",
     y |-> "Y", z |-> "Z"]

DigitChars == "0123456789"

IsUpper(c) == c \in DOMAIN LowerOf

IsLower(c) == c \in DOMAIN UpperOf

IsAlpha(c) == IsUpper(c) \/ IsLower(c)

IsDigit(c) == c \in {"0", "1", "2", "3", "4", "5", "6", "7", "8", "9"}

DigitVal(c) == CHOOSE d \in 0..9 : Char(DigitChars, d + 1) = c

\* regex \w : letters, digits and the underscore
IsWord(c) == IsAlpha(c) \/ IsDigit(c) \/ c = "_"

\* regex \s and the whitespace of str.split() / str.strip()
IsSpace(c) == c \in {" ", "\t", "\n"}

ToLower(c) == IF IsUpper(c) THEN LowerOf[c] ELSE c

ToUpper(c) == IF IsLower(c) THEN UpperOf[c] ELSE c

RECURSIVE MapLower(_, _)
MapLower(s, i) ==
    IF i > Len(s) THEN "" ELSE ToLower(Char(s, i)) \o MapLower(s, i + 1)

\* str.lower()
Lower(s) == MapLower(s, 1)

RECURSIVE LStripFrom(_, _)
LStripFrom(s, i) ==
    IF i > Len(s) THEN ""
    ELSE IF IsSpace(Char(s, i)) THEN LStripFrom(s, i + 1)
    ELSE SubSeq(s, i, Len(s))

RECURSIVE RStripTo(_, _)
RStripTo(s, j) ==
    IF j < 1 THEN ""
    ELSE IF IsSpace(Char(s, j)) THEN RStripTo(s, j - 1)
    ELSE SubSeq(s, 1, j)

\* str.strip()
Strip(s) == RStripTo(LStripFrom(s, 1), Len(LStripFrom(s, 1)))

RECURSIVE JoinSplitFrom(_, _, _, _)
JoinSplitFrom(s, i, out, pending) ==
    IF i > Len(s) THEN out
    ELSE IF IsSpace(Char(s, i))
         THEN JoinSplitFrom(s, i + 1, out, out # "")
         ELSE JoinSplitFrom(s, i + 1,
                            out \o (IF pending THEN " " ELSE "") \o Char(s, i),
                            FALSE)

\* " ".join(s.split())
JoinSplit(s) == JoinSplitFrom(s, 1, "", FALSE)

\* sub in s, at offset i (0-based)
OccursAt(s, sub, i) ==
    /\ i + Len(sub) <= Len(s)
    /\ SubSeq(s, i + 1, i + Len(sub)) = sub

\* Python's  sub in s
Contains(s, sub) == \E i \in 0..Len(s) : OccursAt(s, sub, i)

RECURSIVE RemoveAllFrom(_, _, _)
RemoveAllFrom(s, sub, i) ==
    IF i > Len(s) THEN ""
    ELSE IF OccursAt(s, sub, i - 1)
         THEN RemoveAllFrom(s, sub, i + Len(sub))
         ELSE Char(s, i) \o RemoveAllFrom(s, sub, i + 1)

\* s.replace(sub, '') for a non-empty sub: leftmost non-overlapping occurrences
RemoveAll(s, sub) == RemoveAllFrom(s, sub, 1)

RECURSIVE TitleFrom(_, _, _)
TitleFrom(s, i, prevCased) ==
    IF i > Len(s) THEN ""
    ELSE LET c == Char(s, i) IN
         IF IsAlpha(c)
         THEN (IF prevCased THEN ToLower(c) ELSE ToUpper(c))
                  \o TitleFrom(s, i + 1, TRUE)
         ELSE c \o TitleFrom(s, i + 1, FALSE)

\* str.title()
Title(s) == TitleFrom(s, 1, FALSE)

RECURSIVE AllDigitsFrom(_, _)
AllDigitsFrom(s, i) ==
    IF i > Len(s) THEN TRUE
    ELSE IsDigit(Char(s, i)) /\ AllDigitsFrom(s, i + 1)

\* str.isdigit()
IsDigitStr(s) == s # "" /\ AllDigitsFrom(s, 1)

RECURSIVE SplitLinesFrom(_, _, _)
SplitLinesFrom(s, i, cur) ==
    IF i > Len(s) THEN (IF cur = "" THEN << >> ELSE <<cur>>)
    ELSE IF Char(s, i) = "\n"
         THEN <<cur>> \o SplitLinesFrom(s, i + 1, "")
         ELSE SplitLinesFrom(s, i + 1, cur \o Char(s, i))

\* str.splitlines()
SplitLines(s) == SplitLinesFrom(s, 1, "")

-----------------------------------------------------------------------------
(* TextCleaner                                                             *)

\* the character class [\w\s\$\.\,\-] kept by clean_line
IsKeptChar(c) == IsWord(c) \/ IsSpace(c) \/ c \in {"$", ".", ",", "-"}

RECURSIVE RemoveNoiseFrom(_, _)
RemoveNoiseFrom(s, i) ==
    IF i > Len(s) THEN ""
    ELSE (IF IsKeptChar(Char(s, i)) THEN Char(s, i) ELSE "")
             \o RemoveNoiseFrom(s, i + 1)

\* re.sub(r'[^\w\s\$\.\,\-]', '', s)
RemoveNoise(s) == RemoveNoiseFrom(s, 1)

RECURSIVE CollapseDollarsFrom(_, _)
CollapseDollarsFrom(s, i) ==
    IF i > Len(s) THEN ""
    ELSE (IF Char(s, i) = "$" /\ i > 1 /\ Char(s, i - 1) = "$"
          THEN "" ELSE Char(s, i))
             \o CollapseDollarsFrom(s, i + 1)

\* re.sub(r'\$+', '$', s)
CollapseDollars(s) == CollapseDollarsFrom(s, 1)

clean_line(line) ==
    IF line = "" THEN ""
    ELSE Strip(CollapseDollars(RemoveNoise(JoinSplit(line))))

RECURSIVE StripTrailingPunctTo(_, _)
StripTrailingPunctTo(s, j) ==
    IF j < 1 THEN ""
    ELSE IF ~IsWord(Char(s, j)) /\ ~IsSpace(Char(s, j))
         THEN StripTrailingPunctTo(s, j - 1)
         ELSE SubSeq(s, 1, j)

\* re.sub(r'[^\w\s]+$', '', s)
StripTrailingPunct(s) == StripTrailingPunctTo(s, Len(s))

RECURSIVE StripLeadingNonAlphaFrom(_, _)
StripLeadingNonAlphaFrom(s, i) ==
    IF i > Len(s) THEN ""
    ELSE IF IsDigit(Char(s, i)) \/ ~IsWord(Char(s, i))
         THEN StripLeadingNonAlphaFrom(s, i + 1)
         ELSE SubSeq(s, i, Len(s))

\* re.sub(r'^[\d\W]+', '', s)
StripLeadingNonAlpha(s) == StripLeadingNonAlphaFrom(s, 1)

clean_vendor_name(vendor) ==
    IF vendor = "" THEN ""
    ELSE Strip(Title(StripLeadingNonAlpha(StripTrailingPunct(JoinSplit(vendor)))))

RECURSIVE OnlyDigitsSymbolsFrom(_, _)
OnlyDigitsSymbolsFrom(s, i) ==
    IF i > Len(s) THEN TRUE
    ELSE /\ IsDigit(Char(s, i)) \/ ~IsWord(Char(s, i))
         /\ OnlyDigitsSymbolsFrom(s, i + 1)

\* re.match(r'^[\d\W\s]+$', s)
OnlyDigitsSymbols(s) == s # "" /\ OnlyDigitsSymbolsFrom(s, 1)

\* should_ignore_line without the ignore words
should_ignore_line_NoKeywordCheck(line, words) ==
    IF Strip(line) = "" THEN TRUE
    ELSE IF OnlyDigitsSymbols(line) THEN TRUE
    ELSE IF Len(Strip(line)) < 3 THEN TRUE
    ELSE FALSE

\* should_ignore_line without the check of the length
should_ignore_line_NoLengthCheck(line, words) ==
    IF Strip(line) = "" THEN TRUE
    ELSE IF OnlyDigitsSymbols(line) THEN TRUE
    ELSE IF \E word \in words : Contains(Lower(line), word) THEN TRUE
    ELSE FALSE

\* should_ignore_line without the test for digits and symbols only
should_ignore_line_NoSymbolCheck(line, words) ==
    IF Strip(line) = "" THEN TRUE
    ELSE IF \E word \in words : Contains(Lower(line), word) THEN TRUE
    ELSE IF Len(Strip(line)) < 3 THEN TRUE
    ELSE FALSE

should_ignore_line(line, words) ==
    IF Strip(line) = "" THEN TRUE
    ELSE IF OnlyDigitsSymbols(line) THEN TRUE
    ELSE IF \E word \in words : Contains(Lower(line), word) THEN TRUE
    ELSE IF Len(Strip(line)) < 3 THEN TRUE
    ELSE FALSE

-----------------------------------------------------------------------------
(* AmountParser.  A decimal.Decimal is the record                          *)
(* [neg, ip, fn, fd]: the value (+/-)(ip + fn / 10^fd).                    *)

RECURSIVE Pow10(_)
Pow10(n) == IF n = 0 THEN 1 ELSE 10 * Pow10(n - 1)

RECURSIVE DigitsValTo(_, _)
DigitsValTo(s, j) ==
    IF j < 1 THEN 0 ELSE 10 * DigitsValTo(s, j - 1) + DigitVal(Char(s, j))

\* the number a string of digits denotes ("" denotes 0)
DigitsVal(s) == DigitsValTo(s, Len(s))

Unsigned(s) ==
    IF s # "" /\ Char(s, 1) \in {"+", "-"} THEN SubSeq(s, 2, Len(s)) ELSE s

DotPos(s) ==
    IF Contains(s, ".")
    THEN CHOOSE i \in 1..Len(s) :
             Char(s, i) = "." /\ ~Contains(SubSeq(s, 1, i - 1), ".")
    ELSE Len(s) + 1

IntDigits(s) == SubSeq(s, 1, DotPos(s) - 1)

FracDigits(s) == SubSeq(s, DotPos(s) + 1, Len(s))

\* Decimal(s) does not raise InvalidOperation: surrounding whitespace is
\* dropped, then an optional sign and digits with at most one point.
\* (The exponent, Infinity and NaN forms need letters that no amount
\* string of this model holds.)
DecimalValid(s) ==
    LET u == Unsigned(Strip(s)) IN
    /\ AllDigitsFrom(IntDigits(u), 1)
    /\ AllDigitsFrom(FracDigits(u), 1)
    /\ Len(IntDigits(u)) + Len(FracDigits(u)) >= 1

\* Decimal(s) for a valid s
Decimal(s) ==
    LET t == Strip(s)
        u == Unsigned(t)
    IN [neg |-> (t # "" /\ Char(t, 1) = "-"),
        ip  |-> DigitsVal(IntDigits(u)),
        fn  |-> DigitsVal(FracDigits(u)),
        fd  |-> Len(FracDigits(u))]

MagLess(a, b) ==
    \/ a.ip < b.ip
    \/ a.ip = b.ip /\ a.fn * Pow10(b.fd) < b.fn * Pow10(a.fd)

DecIsZero(a) == a.ip = 0 /\ a.fn = 0

\* a < b on Decimals
DecLess(a, b) ==
    IF a.neg /\ ~DecIsZero(a)
    THEN (IF b.neg /\ ~DecIsZero(b) THEN MagLess(b, a) ELSE TRUE)
    ELSE (IF b.neg /\ ~DecIsZero(b) THEN FALSE ELSE MagLess(a, b))

\* a == b on Decimals (numeric: 1.0 == 1.00)
DecEq(a, b) == ~DecLess(a, b) /\ ~DecLess(b, a)

\* a + b on Decimals that are not negative; the sum has the digits after
\* the point of the longer operand
DecAdd(a, b) ==
    LET fd == IF a.fd >= b.fd THEN a.fd ELSE b.fd
        fn == a.fn * Pow10(fd - a.fd) + b.fn * Pow10(fd - b.fd)
    IN [neg |-> FALSE,
        ip  |-> a.ip + b.ip + (fn \div Pow10(fd)),
        fn  |-> fn % Pow10(fd),
        fd  |-> fd]

RECURSIVE DecSum(_)
\* sum(...) of Decimals: 0 + a1 + a2 + ...
DecSum(as) ==
    IF as = << >> THEN [neg |-> FALSE, ip |-> 0, fn |-> 0, fd |-> 0]
    ELSE DecAdd(DecSum(SubSeq(as, 1, Len(as) - 1)), as[Len(as)])

\* Decimal(str(settings.parsing.min_amount)) with the default 0.01
min_amount == [neg |-> FALSE, ip |-> 0, fn |-> 1, fd |-> 2]

\* Decimal(str(settings.parsing.max_amount)) with the default 10000.0
max_amount == [neg |-> FALSE, ip |-> 10000, fn |-> 0, fd |-> 1]

NoAmount == [neg |-> FALSE, ip |-> 0, fn |-> 0, fd |-> 0]

\* _clean_amount_string leaving the thousands separators in place
_clean_amount_string_KeepsCommas(amount_str) ==
    LET c2 == Strip(RemoveAll(RemoveAll(amount_str, "$"), "USD"))
    IN IF /\ ~Contains(c2, ".")
          /\ Len(c2) > 2
          /\ IsDigitStr(SubSeq(c2, Len(c2) - 1, Len(c2)))
          /\ Len(c2) <= 4
       THEN SubSeq(c2, 1, Len(c2) - 2) \o "." \o SubSeq(c2, Len(c2) - 1, Len(c2))
       ELSE c2

\* the implied-cents rewrite without the upper length limit
_clean_amount_string_NoLengthLimit(amount_str) ==
    LET c1 == Strip(RemoveAll(RemoveAll(amount_str, "$"), "USD"))
        c2 == RemoveAll(c1, ",")
    IN IF /\ ~Contains(c2, ".")
          /\ Len(c2) > 2
          /\ IsDigitStr(SubSeq(c2, Len(c2) - 1, Len(c2)))
       THEN SubSeq(c2, 1, Len(c2) - 2) \o "." \o SubSeq(c2, Len(c2) - 1, Len(c2))
       ELSE c2

_clean_amount_string(amount_str) ==
    LET c1 == Strip(RemoveAll(RemoveAll(amount_str, "$"), "USD"))
        c2 == RemoveAll(c1, ",")
    IN IF /\ ~Contains(c2, ".")
          /\ Len(c2) > 2
          /\ IsDigitStr(SubSeq(c2, Len(c2) - 1, Len(c2)))
          /\ Len(c2) <= 4
       THEN SubSeq(c2, 1, Len(c2) - 2) \o "." \o SubSeq(c2, Len(c2) - 1, Len(c2))
       ELSE c2

AmountOk(a) == [ok |-> TRUE, amount |-> a, error |-> "", field |-> ""]

AmountError(f) ==
    [ok |-> FALSE, amount |-> NoAmount, error |-> "ValidationError", field |-> f]

\* parse_amount without the check against the maximum
parse_amount_NoMaximum(amount_str) ==
    IF amount_str = "" THEN AmountError("amount")
    ELSE LET cleaned == _clean_amount_string(amount_str) IN
         IF ~DecimalValid(cleaned) THEN AmountError("amount")
         ELSE LET amount == Decimal(cleaned) IN
              IF DecLess(amount, min_amount) THEN AmountError("amount_range")
              ELSE AmountOk(amount)

\* parse_amount with the maximum excluded
parse_amount_MaxExclusive(amount_str) ==
    IF amount_str = "" THEN AmountError("amount")
    ELSE LET cleaned == _clean_amount_string(amount_str) IN
         IF ~DecimalValid(cleaned) THEN AmountError("amount")
         ELSE LET amount == Decimal(cleaned) IN
              IF DecLess(amount, min_amount) THEN AmountError("amount_range")
              ELSE IF ~DecLess(amount, max_amount) THEN AmountError("amount_range")
              ELSE AmountOk(amount)

parse_amount(amount_str) ==
    IF amount_str = "" THEN AmountError("amount")
    ELSE LET cleaned == _clean_amount_string(amount_str) IN
         IF ~DecimalValid(cleaned) THEN AmountError("amount")
         ELSE LET amount == Decimal(cleaned) IN
              IF DecLess(amount, min_amount) THEN AmountError("amount_range")
              ELSE IF DecLess(max_amount, amount) THEN AmountError("amount_range")
              ELSE AmountOk(amount)

-----------------------------------------------------------------------------
(* Python's float: an IEEE 754 binary64 number that is zero or positive    *)
(* and normal, as the record [zero, e, m]: m is the significand of 53 bits *)
(* (most significant first, m[1] = 1) and e the exponent of its first bit, *)
(* so the value is within [2^e, 2^(e+1)).  Conversions and sums round to   *)
(* nearest, ties to even.                                                  *)

SignificandBits == 53

RECURSIVE Zeros(_)
Zeros(n) == IF n <= 0 THEN << >> ELSE <<0>> \o Zeros(n - 1)

FloatZero == [zero |-> TRUE, e |-> 0, m |-> Zeros(SignificandBits)]

RECURSIVE BinaryOf(_)
\* the bits of a natural number, none for 0
BinaryOf(n) == IF n = 0 THEN << >> ELSE BinaryOf(n \div 2) \o <<n % 2>>

RECURSIVE FracBits(_, _, _)
\* the first n bits of the binary expansion of r / den, for 0 <= r < den
FracBits(r, den, n) ==
    IF n <= 0 THEN << >>
    ELSE <<IF 2 * r >= den THEN 1 ELSE 0>> \o FracBits((2 * r) % den, den, n - 1)

RECURSIVE FracRem(_, _, _)
\* what is left of r / den after those n bits (0 when the expansion ended)
FracRem(r, den, n) ==
    IF n <= 0 \/ r = 0 THEN r ELSE FracRem((2 * r) % den, den, n - 1)

RECURSIVE LeadingZeros(_, _)
\* the number of 0 bits before the first 1 bit of r / den, for 0 < r < den
LeadingZeros(r, den) == IF 2 * r >= den THEN 0 ELSE 1 + LeadingZeros(2 * r, den)

RECURSIVE IncBits(_, _)
\* the bits plus one at position j; one bit longer when the carry runs out
IncBits(b, j) ==
    IF j = 0 THEN <<1>> \o b
    ELSE IF b[j] = 0 THEN [b EXCEPT ![j] = 1]
    ELSE IncBits([b EXCEPT ![j] = 0], j - 1)

RECURSIVE AddBitsFrom(_, _, _, _)
\* the sum of two bit strings of one length, from position j down
AddBitsFrom(a, b, j, carry) ==
    IF j = 0 THEN (IF carry = 1 THEN <<1>> ELSE << >>)
    ELSE IF a[j] + b[j] + carry >= 2
         THEN AddBitsFrom(a, b, j - 1, 1) \o <<(a[j] + b[j] + carry) - 2>>
         ELSE AddBitsFrom(a, b, j - 1, 0) \o <<a[j] + b[j] + carry>>

\* the binary64 nearest to the number whose bits are sig (sig[1] = 1, of
\* weight 2^e) followed by something that is non-zero iff sticky
RoundToFloat(sig, sticky, e) ==
    LET all   == sig \o Zeros(SignificandBits + 1 - Len(sig))
        keep  == SubSeq(all, 1, SignificandBits)
        half  == all[SignificandBits + 1] = 1
        below == sticky \/ \E i \in (SignificandBits + 2)..Len(all) : all[i] = 1
        up    == half /\ (below \/ keep[SignificandBits] = 1)
        inc   == IncBits(keep, SignificandBits)
    IN IF ~up THEN [zero |-> FALSE, e |-> e, m |-> keep]
       ELSE IF Len(inc) > SignificandBits
            THEN [zero |-> FALSE, e |-> e + 1, m |-> SubSeq(inc, 1, SignificandBits)]
            ELSE [zero |-> FALSE, e |-> e, m |-> inc]

\* float(s) and float(Decimal) for a decimal number that is not negative:
\* the binary64 nearest to ip + fn / 10^fd
FloatOf(a) ==
    IF DecIsZero(a) THEN FloatZero
    ELSE LET den == Pow10(a.fd)
             ib  == BinaryOf(a.ip)
             z   == LeadingZeros(a.fn, den)
         IN IF a.ip > 0
            THEN RoundToFloat(ib \o FracBits(a.fn, den, SignificandBits + 1 - Len(ib)),
                              FracRem(a.fn, den, SignificandBits + 1 - Len(ib)) # 0,
                              Len(ib) - 1)
            ELSE RoundToFloat(SubSeq(FracBits(a.fn, den, z + SignificandBits + 1),
                                     z + 1, z + SignificandBits + 1),
                              FracRem(a.fn, den, z + SignificandBits + 1) # 0,
                              0 - (z + 1))

\* x + y on floats
FloatAdd(x, y) ==
    IF x.zero THEN y
    ELSE IF y.zero THEN x
    ELSE LET hi == IF x.e >= y.e THEN x ELSE y
             lo == IF x.e >= y.e THEN y ELSE x
             d  == hi.e - lo.e
             a  == hi.m \o Zeros(d)
             b  == Zeros(d) \o lo.m
             s  == AddBitsFrom(a, b, Len(a), 0)
         IN RoundToFloat(s, FALSE, hi.e + (Len(s) - Len(a)))

\* x < y on floats
FloatLess(x, y) ==
    IF y.zero THEN FALSE
    ELSE IF x.zero THEN TRUE
    ELSE \/ x.e < y.e
         \/ /\ x.e = y.e
            /\ \E i \in 1..SignificandBits :
                  /\ x.m[i] < y.m[i]
                  /\ \A j \in 1..(i - 1) : x.m[j] = y.m[j]

RECURSIVE BitsValue(_, _)
\* the natural number of the first n bits
BitsValue(b, n) == IF n <= 0 THEN 0 ELSE 2 * BitsValue(b, n - 1) + b[n]

\* int(x): the integer part of a float below 2^31
FloatFloor(x) == IF x.zero \/ x.e < 0 THEN 0 ELSE BitsValue(x.m, x.e + 1)

\* the decimal numbers with n digits after the point and the integer part
\* of x or the next one
ReprCandidates(x, n) ==
    {[neg |-> FALSE, ip |-> FloatFloor(x) + up, fn |-> fn, fd |-> n] :
        up \in 0..1, fn \in 0..(Pow10(n) - 1)}

\* Decimal(str(x)): str gives the shortest decimal string that float()
\* reads back as x, and Decimal takes its digits.  This is for a float that
\* some number of at most two decimals rounds to, as every float here is.
DecimalOfStr(x) ==
    LET one == {c \in ReprCandidates(x, 1) : FloatOf(c) = x} IN
    IF one # {} THEN CHOOSE c \in one : TRUE
    ELSE CHOOSE c \in ReprCandidates(x, 2) : FloatOf(c) = x

-----------------------------------------------------------------------------
(* Regular expressions, as ParsingPattern compiles and searches them       *)
(* (re.IGNORECASE | re.MULTILINE, pattern.search).  A pattern is a         *)
(* sequence of items: the anchors ^ and $, the opening and closing of a    *)
(* capture group, and a quantified unit, where a unit is a sequence of     *)
(* character classes (one class for \d+, four for (?:,\d{3})* ).           *)
(* MatchAt is the backtracking matcher of the re module: a greedy          *)
(* quantifier tries the most repetitions first, a lazy one the fewest.     *)

ClsAny == [t |-> "any", cs |-> {}]

ClsSpace == [t |-> "space", cs |-> {}]

ClsDigit == [t |-> "digit", cs |-> {}]

\* a literal character; under IGNORECASE a letter stands for both cases
Lit(c) == [t |-> "lit", cs |-> {ToLower(c), ToUpper(c)}]

InClass(c, cls) ==
    CASE cls.t = "any"   -> c # "\n"
      [] cls.t = "space" -> IsSpace(c)
      [] cls.t = "digit" -> IsDigit(c)
      [] OTHER           -> c \in cls.cs

Bol == [k |-> "bol", unit |-> << >>, min |-> 0, max |-> 0, lazy |-> FALSE, g |-> 0]

Eol == [k |-> "eol", unit |-> << >>, min |-> 0, max |-> 0, lazy |-> FALSE, g |-> 0]

Open(g) == [k |-> "open", unit |-> << >>, min |-> 0, max |-> 0, lazy |-> FALSE, g |-> g]

Close(g) == [k |-> "close", unit |-> << >>, min |-> 0, max |-> 0, lazy |-> FALSE, g |-> g]

\* unit{min,max}; max = -1 stands for no upper limit
Rep(unit, min, max, lazy) ==
    [k |-> "rep", unit |-> unit, min |-> min, max |-> max, lazy |-> lazy, g |-> 0]

One(cls) == Rep(<<cls>>, 1, 1, FALSE)

Opt(cls) == Rep(<<cls>>, 0, 1, FALSE)

Star(cls) == Rep(<<cls>>, 0, -1, FALSE)

Plus(cls) == Rep(<<cls>>, 1, -1, FALSE)

LazyPlus(cls) == Rep(<<cls>>, 1, -1, TRUE)

NoCaps == [g \in 1..2 |-> [s |-> 0, e |-> 0]]

NoMatch == [ok |-> FALSE, c |-> NoCaps]

\* the unit matches s at offset p (0-based)
UnitAt(s, p, unit) ==
    /\ p + Len(unit) <= Len(s)
    /\ \A j \in 1..Len(unit) : InClass(Char(s, p + j), unit[j])

RECURSIVE MaxReps(_, _, _, _)
\* how many consecutive repetitions of the unit s holds at p, at most max
MaxReps(s, p, unit, max) ==
    IF max = 0 \/ ~UnitAt(s, p, unit) THEN 0
    ELSE 1 + MaxReps(s, p + Len(unit), unit, IF max < 0 THEN max ELSE max - 1)

RECURSIVE MatchAt(_, _, _, _, _)
RECURSIVE TryGreedy(_, _, _, _, _, _)
RECURSIVE TryLazy(_, _, _, _, _, _, _)

\* items i.. of re against s from offset p, with the captures c so far
MatchAt(re, i, s, p, c) ==
    IF i > Len(re) THEN [ok |-> TRUE, c |-> c]
    ELSE LET it == re[i] IN
         CASE it.k = "bol" ->
                  IF p = 0 \/ Char(s, p) = "\n"
                  THEN MatchAt(re, i + 1, s, p, c) ELSE NoMatch
           [] it.k = "eol" ->
                  IF p = Len(s) \/ Char(s, p + 1) = "\n"
                  THEN MatchAt(re, i + 1, s, p, c) ELSE NoMatch
           [] it.k = "open" ->
                  MatchAt(re, i + 1, s, p, [c EXCEPT ![it.g].s = p])
           [] it.k = "close" ->
                  MatchAt(re, i + 1, s, p, [c EXCEPT ![it.g].e = p])
           [] OTHER ->
                  LET most == MaxReps(s, p, it.unit, it.max) IN
                  IF most < it.min THEN NoMatch
                  ELSE IF it.lazy THEN TryLazy(re, i, s, p, c, it.min, most)
                  ELSE TryGreedy(re, i, s, p, c, most)

TryGreedy(re, i, s, p, c, n) ==
    IF n < re[i].min THEN NoMatch
    ELSE LET r == MatchAt(re, i + 1, s, p + n * Len(re[i].unit), c) IN
         IF r.ok THEN r ELSE TryGreedy(re, i, s, p, c, n - 1)

TryLazy(re, i, s, p, c, n, most) ==
    IF n > most THEN NoMatch
    ELSE LET r == MatchAt(re, i + 1, s, p + n * Len(re[i].unit), c) IN
         IF r.ok THEN r ELSE TryLazy(re, i, s, p, c, n + 1, most)

RECURSIVE SearchFrom(_, _, _)
SearchFrom(re, s, p) ==
    IF p > Len(s) THEN NoMatch
    ELSE LET r == MatchAt(re, 1, s, p, NoCaps) IN
         IF r.ok THEN r ELSE SearchFrom(re, s, p + 1)

\* pattern.search(s): the leftmost match
Search(re, s) == SearchFrom(re, s, 0)

\* match.group(g)
Group(s, m, g) == SubSeq(s, m.c[g].s + 1, m.c[g].e)

-----------------------------------------------------------------------------
(* PatternLibrary.  Confidence is held in hundredths (0.95 is 95).         *)

\* \d{1,3}(?:,\d{3})*
Thousands ==
    << Rep(<<ClsDigit>>, 1, 3, FALSE),
       Rep(<<Lit(","), ClsDigit, ClsDigit, ClsDigit>>, 0, -1, FALSE) >>

\* \.\d{2}
Cents == << One(Lit(".")), Rep(<<ClsDigit>>, 2, 2, FALSE) >>

\* ^(.+?)\s+
VendorThenSpace == << Bol, Open(1), LazyPlus(ClsAny), Close(1), Plus(ClsSpace) >>

\* \s*$
SpaceThenEnd == << Star(ClsSpace), Eol >>

ParsingPattern(re, name, confidence) ==
    [pattern |-> re, name |-> name, confidence |-> confidence]

\* ^(.+?)\s+\$\s*(\d{1,3}(?:,\d{3})*(?:\.\d{2}))\s*$
currency_with_commas ==
    ParsingPattern(
        VendorThenSpace \o << One(Lit("$")), Star(ClsSpace), Open(2) >>
            \o Thousands \o Cents \o << Close(2) >> \o SpaceThenEnd,
        "currency_with_commas", 95)

\* ^(.+?)\s+USD\s*(\d{1,3}(?:,\d{3})*(?:\.\d{2}))\s*$
usd_currency ==
    ParsingPattern(
        VendorThenSpace
            \o << One(Lit("U")), One(Lit("S")), One(Lit("D")), Star(ClsSpace), Open(2) >>
            \o Thousands \o Cents \o << Close(2) >> \o SpaceThenEnd,
        "usd_currency", 95)

\* ^(.+?)\s+\$(\d+\.\d{2})\s*$
simple_currency ==
    ParsingPattern(
        VendorThenSpace \o << One(Lit("$")), Open(2), Plus(ClsDigit) >>
            \o Cents \o << Close(2) >> \o SpaceThenEnd,
        "simple_currency", 90)

\* ^(.+?)\s+(\d{1,3}(?:,\d{3})*\.\d{2})\s*$
decimal_amount ==
    ParsingPattern(
        VendorThenSpace \o << Open(2) >> \o Thousands \o Cents
            \o << Close(2) >> \o SpaceThenEnd,
        "decimal_amount", 80)

\* ^(.+?)\s+\$(\d+)\s*$
whole_dollar ==
    ParsingPattern(
        VendorThenSpace \o << One(Lit("$")), Open(2), Plus(ClsDigit), Close(2) >>
            \o SpaceThenEnd,
        "whole_dollar", 70)

\* (.+?)\s*[\$]?\s*(\d+\.?\d*)\s*$
loose_numeric ==
    ParsingPattern(
        << Open(1), LazyPlus(ClsAny), Close(1), Star(ClsSpace), Opt(Lit("$")),
           Star(ClsSpace), Open(2), Plus(ClsDigit), Opt(Lit(".")), Star(ClsDigit),
           Close(2) >> \o SpaceThenEnd,
        "loose_numeric", 50)

get_default_patterns ==
    << currency_with_commas, usd_currency, simple_currency,
       decimal_amount, whole_dollar, loose_numeric >>

-----------------------------------------------------------------------------
(* RegexReceiptParser._parse_line                                          *)

RECURSIVE SortedByConfidence_TiesReversed(_)
\* a sort that is not stable: among equal confidences the later pattern first
SortedByConfidence_TiesReversed(ps) ==
    IF ps = << >> THEN << >>
    ELSE LET k == CHOOSE k \in 1..Len(ps) :
                      /\ \A j \in 1..Len(ps) : ps[j].confidence <= ps[k].confidence
                      /\ \A j \in (k + 1)..Len(ps) : ps[j].confidence < ps[k].confidence
         IN <<ps[k]>> \o SortedByConfidence_TiesReversed(
                             SubSeq(ps, 1, k - 1) \o SubSeq(ps, k + 1, Len(ps)))

RECURSIVE SortedByConfidence(_)
\* sorted(patterns, key=lambda p: p.confidence, reverse=True): a stable sort,
\* so patterns of equal confidence keep their order in the list
SortedByConfidence(ps) ==
    IF ps = << >> THEN << >>
    ELSE LET k == CHOOSE k \in 1..Len(ps) :
                      /\ \A j \in 1..Len(ps) : ps[j].confidence <= ps[k].confidence
                      /\ \A j \in 1..(k - 1) : ps[j].confidence < ps[k].confidence
         IN <<ps[k]>> \o SortedByConfidence(SubSeq(ps, 1, k - 1) \o SubSeq(ps, k + 1, Len(ps)))

ParsedLine(line_number, raw_text, vendor, amount, confidence, parse_method) ==
    [found |-> TRUE, line_number |-> line_number, raw_text |-> raw_text,
     vendor |-> vendor, amount |-> amount, confidence |-> confidence,
     parse_method |-> parse_method]

\* the None that _parse_line returns
NoParsedLine ==
    [found |-> FALSE, line_number |-> 0, raw_text |-> "", vendor |-> "",
     amount |-> NoAmount, confidence |-> 0, parse_method |-> ""]

RECURSIVE TryPatterns_FirstMatchDecides(_, _, _, _, _)
\* the loop giving up at the first pattern that matches but fails validation
TryPatterns_FirstMatchDecides(sorted, k, cleaned_line, line, line_num) ==
    IF k > Len(sorted) THEN NoParsedLine
    ELSE LET pattern == sorted[k]
             match == Search(pattern.pattern, cleaned_line)
         IN IF ~match.ok
            THEN TryPatterns_FirstMatchDecides(sorted, k + 1, cleaned_line, line, line_num)
            ELSE LET vendor == clean_vendor_name(Group(cleaned_line, match, 1))
                     amount == parse_amount(Group(cleaned_line, match, 2))
                 IN IF vendor = "" \/ ~amount.ok THEN NoParsedLine
                    ELSE ParsedLine(line_num, line, vendor, amount.amount,
                                    pattern.confidence, pattern.name)

RECURSIVE TryPatterns(_, _, _, _, _)
\* the loop over the sorted patterns, from the k-th on
TryPatterns(sorted, k, cleaned_line, line, line_num) ==
    IF k > Len(sorted) THEN NoParsedLine
    ELSE LET pattern == sorted[k]
             match == Search(pattern.pattern, cleaned_line)
         IN IF ~match.ok THEN TryPatterns(sorted, k + 1, cleaned_line, line, line_num)
            ELSE LET vendor == clean_vendor_name(Group(cleaned_line, match, 1)) IN
                 IF vendor = ""
                 THEN TryPatterns(sorted, k + 1, cleaned_line, line, line_num)
                 ELSE LET amount == parse_amount(Group(cleaned_line, match, 2)) IN
                      IF ~amount.ok
                      THEN TryPatterns(sorted, k + 1, cleaned_line, line, line_num)
                      ELSE ParsedLine(line_num, line, vendor, amount.amount,
                                      pattern.confidence, pattern.name)

\* _parse_line keeping the cleaned line as the raw text
_parse_line_CleanedAsRaw(line, line_num, ps, words) ==
    LET cleaned_line == clean_line(line) IN
    IF should_ignore_line(cleaned_line, words) THEN NoParsedLine
    ELSE TryPatterns(SortedByConfidence(ps), 1, cleaned_line, cleaned_line, line_num)

_parse_line(line, line_num, ps, words) ==
    LET cleaned_line == clean_line(line) IN
    IF should_ignore_line(cleaned_line, words) THEN NoParsedLine
    ELSE TryPatterns(SortedByConfidence(ps), 1, cleaned_line, line, line_num)

-----------------------------------------------------------------------------
(* ReceiptItem                                                             *)

\* a ReceiptItem that accepts every amount
ReceiptItemRaises_Never(amount) == DecLess(amount, amount)

\* ReceiptItem.__post_init__ raises ValueError for a negative amount
ReceiptItemRaises(amount) == DecLess(amount, NoAmount)

ReceiptItem(vendor, amount, line_number, confidence, raw_text) ==
    [vendor |-> Strip(vendor), amount |-> amount, category |-> "",
     line_number |-> line_number, confidence |-> confidence, raw_text |-> raw_text]

-----------------------------------------------------------------------------
(* smart_parse_receipt, the sibling parser of final_main and precise_main  *)

\* a character class given by its characters, as [\.,]
OneOf(cs) == [t |-> "lit", cs |-> cs]

\* (\d+\.\d{2})
dot_amount ==
    << Open(1), Plus(ClsDigit), One(Lit(".")), Rep(<<ClsDigit>>, 2, 2, FALSE), Close(1) >>

\* (\d+,\d{2})
comma_amount ==
    << Open(1), Plus(ClsDigit), One(Lit(",")), Rep(<<ClsDigit>>, 2, 2, FALSE), Close(1) >>

amount_patterns == <<dot_amount, comma_amount>>

\* \d+[\.,]\d+.*$  (the whole match is taken as group 1)
amount_to_end ==
    << Open(1), Plus(ClsDigit), One(OneOf({".", ","})), Plus(ClsDigit),
       Star(ClsAny), Eol, Close(1) >>

RECURSIVE FindAllFrom(_, _, _)
\* re.findall(pattern, s): the non-overlapping matches from the left
FindAllFrom(re, s, p) ==
    IF p > Len(s) THEN << >>
    ELSE LET r == SearchFrom(re, s, p) IN
         IF ~r.ok THEN << >>
         ELSE <<Group(s, r, 1)>> \o FindAllFrom(re, s, r.c[1].e)

FindAll(re, s) == FindAllFrom(re, s, 0)

\* re.sub(r'\d+[\.,]\d+.*$', '', s): what precedes the first match
RemoveAmountToEnd(s) ==
    LET r == Search(amount_to_end, s) IN
    IF r.ok THEN SubSeq(s, 1, r.c[1].s) ELSE s

RECURSIVE PunctToSpaceFrom(_, _)
PunctToSpaceFrom(s, i) ==
    IF i > Len(s) THEN ""
    ELSE (IF IsWord(Char(s, i)) \/ IsSpace(Char(s, i)) THEN Char(s, i) ELSE " ")
             \o PunctToSpaceFrom(s, i + 1)

\* re.sub(r'[^\w\s]', ' ', s)
PunctToSpace(s) == PunctToSpaceFrom(s, 1)

RECURSIVE CommaToPointFrom(_, _)
CommaToPointFrom(s, i) ==
    IF i > Len(s) THEN ""
    ELSE (IF Char(s, i) = "," THEN "." ELSE Char(s, i)) \o CommaToPointFrom(s, i + 1)

\* s.replace(',', '.')
CommaToPoint(s) == CommaToPointFrom(s, 1)

RECURSIVE SplitNewlineFrom(_, _, _)
SplitNewlineFrom(s, i, cur) ==
    IF i > Len(s) THEN <<cur>>
    ELSE IF Char(s, i) = "\n"
         THEN <<cur>> \o SplitNewlineFrom(s, i + 1, "")
         ELSE SplitNewlineFrom(s, i + 1, cur \o Char(s, i))

\* s.split('\n')
SplitNewline(s) == SplitNewlineFrom(s, 1, "")

\* exclude_keywords of final_main
final_exclude_keywords ==
    {"total", "subtotal", "tax", "change", "tender", "payment",
     "transaction", "record", "receipt", "store", "reg", "cashier"}

\* exclude_keywords of precise_main
precise_exclude_keywords ==
    final_exclude_keywords
        \cup {"return", "refund", "balance", "card", "visa", "amex", "credit"}

exclude_keywords(module) ==
    IF module = "final_main" THEN final_exclude_keywords ELSE precise_exclude_keywords

\* the float literals 0.50 and 200.00 of  0.50 <= amount <= 200.00
smart_min_amount == FloatOf([neg |-> FALSE, ip |-> 0, fn |-> 50, fd |-> 2])

smart_max_amount == FloatOf([neg |-> FALSE, ip |-> 200, fn |-> 0, fd |-> 2])

\* vendor_part.lower()[:20]
VendorKeyLength == 20

\* vendor_part[:50]
VendorLength == 50

Prefix(s, n) == SubSeq(s, 1, IF Len(s) < n THEN Len(s) ELSE n)

vendor_key(vendor_part) == Prefix(Lower(vendor_part), VendorKeyLength)

\* the floats of the amounts found that are within the range
valid_amounts(amounts_found) ==
    LET amount(amount_str) == FloatOf(Decimal(CommaToPoint(amount_str)))
        InRange(amount_str) ==
            /\ ~FloatLess(amount(amount_str), smart_min_amount)
            /\ ~FloatLess(smart_max_amount, amount(amount_str))
        kept == SelectSeq(amounts_found, InRange)
    IN [k \in 1..Len(kept) |-> amount(kept[k])]

NoSmartLine ==
    [found |-> FALSE, line |-> "", vendor_part |-> "", amount |-> FloatZero]

\* the body of the loop up to the duplicate check: the filters a line has to
\* pass, with the stripped line, its vendor part and its first valid amount
SmartLine(raw, keywords) ==
    LET line == Strip(raw) IN
    IF line = "" \/ Len(line) < 5 THEN NoSmartLine
    ELSE LET amounts_found == FindAll(amount_patterns[1], line)
                                  \o FindAll(amount_patterns[2], line)
         IN IF amounts_found = << >> THEN NoSmartLine
            ELSE IF \E keyword \in keywords : Contains(Lower(line), keyword)
            THEN NoSmartLine
            ELSE LET valid == valid_amounts(amounts_found) IN
                 IF valid = << >> THEN NoSmartLine
                 ELSE LET vendor_part ==
                              JoinSplit(PunctToSpace(Strip(RemoveAmountToEnd(line))))
                      IN IF Len(vendor_part) < 3 THEN NoSmartLine
                         ELSE [found |-> TRUE, line |-> line,
                               vendor_part |-> vendor_part, amount |-> valid[1]]

\* ReceiptItem(vendor=vendor_part[:50], amount=Decimal(str(amount)), raw_text=line):
\* line_number and confidence keep their defaults 0 and 1.0
SmartItem(c) ==
    ReceiptItem(Prefix(c.vendor_part, VendorLength), DecimalOfStr(c.amount), 0, 100, c.line)

-----------------------------------------------------------------------------
(* Configuration                                                           *)

\* ParsingConfig.ignore_words, the default
default_ignore_words ==
    {"tax", "total", "subtotal", "tip", "gratuity",
     "discount", "coupon", "credit", "change"}

\* an ignore-word set supplied by the environment (PARSING__IGNORE_WORDS),
\* with a keyword that is not in lower case
custom_ignore_words == {"Tip", "fee"}

\* a pattern list injected through RegexReceiptParser(patterns=...): not
\* sorted by confidence, and with two patterns of the same confidence that
\* match the same lines
custom_patterns ==
    << loose_numeric, whole_dollar,
       ParsingPattern(simple_currency.pattern, "simple_currency", 95),
       currency_with_commas, decimal_amount >>

-----------------------------------------------------------------------------
(* Inputs                                                                  *)

MaxLines == 2

MaxIntDigits == 5

MaxPad == 2

MaxItems == 3

RECURSIVE Repeat(_, _)
Repeat(c, n) == IF n = 0 THEN "" ELSE c \o Repeat(c, n - 1)

RECURSIVE JoinLines(_)
JoinLines(ls) ==
    IF ls = << >> THEN ""
    ELSE IF Len(ls) = 1 THEN ls[1]
    ELSE ls[1] \o "\n" \o JoinLines(Tail(ls))

\* a str argument, and arguments of other types
Str(s) == [type |-> "str", value |-> s]

NonStrings == {[type |-> "int", value |-> ""], [type |-> "NoneType", value |-> ""]}

NoText == [type |-> "unset", value |-> ""]

\* the lines of the documents
DocLines ==
    {"Latte $5.45", "Tea 3.25", "Total: $8.70", "XY 9999999.99", "A 5", "",
     Repeat(" ", MaxPad), "tip 5", "$5.00"}

\* the lines under the shop's name in the first sample receipt of
\* create_demo_receipt_images
demo_receipt_1 ==
    <<"Grande Latte      $5.45", "Blueberry Muffin  $3.25", "Total:            $8.70">>

Documents ==
    {JoinLines(ls) : ls \in UNION {[1..n -> DocLines] : n \in 0..MaxLines}}
        \cup {JoinLines(demo_receipt_1)}

\* integer parts of 1..MaxIntDigits digits: 9, 99, ... and 1, 10, ...
IntParts ==
    {"0"} \cup {Repeat("9", n) : n \in 1..MaxIntDigits}
          \cup {"1" \o Repeat("0", n - 1) : n \in 1..MaxIntDigits}

GroupedParts == {"1,234", "10,000", "1,23", "9,999,999"}

Fractions == {"", ".", ".5", ".00", ".01", ".99", ".001"}

LineVendors ==
    {"", "A", "Ab", "Ab c", "12", "-", "A 5", "tip", "Tip x", "TAX", "t!ip",
     "Fee", "No fee", "a:", "_"}

LineSeparators ==
    {"", "$", " USD ", " usd", " $$"}
        \cup {Repeat(" ", n) : n \in 1..MaxPad}
        \cup {Repeat(" ", n) \o "$" : n \in 1..MaxPad}
        \cup {" $" \o Repeat(" ", n) : n \in 1..MaxPad}

LineAmounts == {"", "5", "1.00", "0.00", "1,234.56", "10,000.01", "123"}

\* single lines: every vendor and separator with a few amounts, and every
\* amount after a plain vendor
SingleLines ==
    {v \o sp \o a : v \in LineVendors, sp \in LineSeparators, a \in LineAmounts}
        \cup {"Ab" \o sp \o ip \o fr \o t :
                 sp \in {" ", " $", " USD "},
                 ip \in IntParts \cup GroupedParts,
                 fr \in Fractions, t \in {"", " "}}

\* amount strings handed to parse_amount
AmountStrings ==
    {pre \o ip \o fr \o suf :
        pre \in {"", "$", "$ ", "USD ", "-", " "},
        ip \in IntParts \cup GroupedParts \cup {""},
        fr \in Fractions,
        suf \in {"", " ", "x", ","}}

-----------------------------------------------------------------------------
(* State                                                                   *)

VARIABLES
    ignore_words,   \* TextCleaner.ignore_words
    patterns,       \* RegexReceiptParser.patterns
    parser,         \* ReceiptParsingManager.parser: which implementation
    entry,          \* the operation the caller invoked
    file,           \* the file parse_receipt_file is given
    pc,             \* the position reached in the call
    text,           \* the text argument of parse_receipt_text
    lines,          \* parse_receipt_text: lines
    line_num,       \* parse_receipt_text: line_num (0 before the loop)
    parsed_line,    \* parse_receipt_text: parsed_line of the last iteration
    parsed_items,   \* parse_receipt_text: parsed_items
    outcome,        \* what the running call returned or raised
    calls,          \* how often the manager invoked parser.parse_receipt_text
    amount_str,     \* the argument of a direct parse_amount call
    amount_out,     \* and its result
    instances,      \* two RegexReceiptParser objects: patterns, text_cleaner
    frames,         \* two parse_receipt_text calls: self, text, the locals
    interleaved,    \* history: a call took a step while the other was running
    smart,          \* a smart_parse_receipt call: its argument and its locals
    receipt,        \* a Receipt object and the outcome of the last add_item
    cleaner,        \* a direct TextCleaner call: method, argument, result
    batch           \* a BatchReceiptProcessor and its process_all_images call

vars ==
    <<ignore_words, patterns, parser, entry, file, pc, text, lines, line_num,
      parsed_line, parsed_items, outcome, calls, amount_str, amount_out,
      instances, frames, interleaved, smart, receipt, cleaner, batch>>

config == <<ignore_words, patterns, parser, entry>>

locals == <<lines, line_num, parsed_line, parsed_items>>

amount_call == <<amount_str, amount_out>>

two_calls == <<instances, frames, interleaved>>

\* what the parsing core never touches: the sibling parser and the Receipt
siblings == <<smart, receipt>>

Pending == [kind |-> "pending", items |-> << >>, exc |-> ""]

Return(items) == [kind |-> "return", items |-> items, exc |-> ""]

Raise(exc) == [kind |-> "raise", items |-> << >>, exc |-> exc]

NoFile == [state |-> "none", content |-> ""]

NoAmountCall == [ok |-> FALSE, amount |-> NoAmount, error |-> "", field |-> "pending"]

\* no pair of calls is running, no sibling parser, no Receipt
NoTwoCalls ==
    /\ instances = << >>
    /\ frames = << >>
    /\ interleaved = FALSE

NoSiblings ==
    /\ smart = << >>
    /\ receipt = << >>

\* the TextCleaner is not called on its own, and there is no batch run
utilities == <<cleaner, batch>>

NoUtilities ==
    /\ cleaner = << >>
    /\ batch = << >>

InitLocals ==
    /\ lines = << >>
    /\ line_num = 0
    /\ parsed_line = NoParsedLine
    /\ parsed_items = << >>
    /\ outcome = Pending
    /\ calls = 0

\* a call of RegexReceiptParser.parse_receipt_text, of
\* ReceiptParsingManager.parse_receipt_text or of
\* ReceiptParsingManager.parse_receipt_file on a document or a non-string
Init ==
    /\ NoTwoCalls
    /\ NoSiblings
    /\ ignore_words \in {default_ignore_words, custom_ignore_words}
    /\ patterns \in {get_default_patterns, custom_patterns}
    /\ InitLocals
    /\ NoUtilities
    /\ amount_str = "" /\ amount_out = NoAmountCall
    /\ \/ /\ entry = "parser" /\ parser = "RegexReceiptParser"
          /\ pc = "parse_enter" /\ file = NoFile
          /\ text \in {Str(d) : d \in Documents} \cup NonStrings
       \/ /\ entry = "manager_text" /\ parser \in {"RegexReceiptParser", "FailingParser"}
          /\ pc = "manager_text_enter" /\ file = NoFile
          /\ text \in {Str(d) : d \in Documents} \cup NonStrings
       \/ /\ entry = "manager_file" /\ parser \in {"RegexReceiptParser", "FailingParser"}
          /\ pc = "manager_file_enter" /\ text = NoText
          /\ file \in {[state |-> "missing", content |-> ""],
                       [state |-> "unreadable", content |-> ""]}
                      \cup {[state |-> "ok", content |-> d] : d \in Documents}

-----------------------------------------------------------------------------
(* RegexReceiptParser.parse_receipt_text                                   *)

\* the entry without the type check: a falsy argument counts as empty text
ParseEnter_NoTypeCheck ==
    /\ pc = "parse_enter"
    /\ IF text.type # "str" \/ Strip(text.value) = ""
       THEN /\ outcome' = Return(<< >>)
            /\ pc' = "parse_done"
            /\ UNCHANGED locals
       ELSE /\ lines' = SplitLines(text.value)
            /\ parsed_items' = << >>
            /\ line_num' = 0
            /\ pc' = "loop"
            /\ UNCHANGED <<parsed_line, outcome>>
    /\ UNCHANGED <<utilities, config, file, text, calls, amount_call, two_calls, siblings>>

\* the entry treating an empty text as an error
ParseEnter_EmptyRaises ==
    /\ pc = "parse_enter"
    /\ IF text.type # "str" \/ Strip(text.value) = ""
       THEN /\ outcome' = Raise("ValidationError")
            /\ pc' = "parse_done"
            /\ UNCHANGED locals
       ELSE /\ lines' = SplitLines(text.value)
            /\ parsed_items' = << >>
            /\ line_num' = 0
            /\ pc' = "loop"
            /\ UNCHANGED <<parsed_line, outcome>>
    /\ UNCHANGED <<utilities, config, file, text, calls, amount_call, two_calls, siblings>>

\* lines 304-315: the type check, the empty text, the split into lines
ParseEnter ==
    /\ pc = "parse_enter"
    /\ IF text.type # "str"
       THEN /\ outcome' = Raise("ValidationError")
            /\ pc' = "parse_done"
            /\ UNCHANGED locals
       ELSE IF Strip(text.value) = ""
       THEN /\ outcome' = Return(<< >>)
            /\ pc' = "parse_done"
            /\ UNCHANGED locals
       ELSE /\ lines' = SplitLines(text.value)
            /\ parsed_items' = << >>
            /\ line_num' = 0
            /\ pc' = "loop"
            /\ UNCHANGED <<parsed_line, outcome>>
    /\ UNCHANGED <<utilities, config, file, text, calls, amount_call, two_calls, siblings>>

\* the loop ending at the first line that does not parse
ParseLineStep_StopsAtFailure ==
    /\ pc = "loop"
    /\ line_num < Len(lines)
    /\ \E n \in {line_num + 1} :
       \E r \in {_parse_line(lines[n], n, patterns, ignore_words)} :
          /\ line_num' = IF r.found THEN n ELSE Len(lines)
          /\ parsed_line' = r
          /\ parsed_items' =
                 IF r.found
                 THEN Append(parsed_items,
                             ReceiptItem(r.vendor, r.amount, r.line_number,
                                         r.confidence, r.raw_text))
                 ELSE parsed_items
          /\ UNCHANGED <<outcome, pc>>
    /\ UNCHANGED <<utilities, config, file, text, lines, calls, amount_call, two_calls, siblings>>

\* the loop numbering the lines from 0
ParseLineStep_ZeroBased ==
    /\ pc = "loop"
    /\ line_num < Len(lines)
    /\ \E n \in {line_num + 1} :
       \E r \in {_parse_line(lines[n], n - 1, patterns, ignore_words)} :
          /\ line_num' = n
          /\ parsed_line' = r
          /\ parsed_items' =
                 IF r.found
                 THEN Append(parsed_items,
                             ReceiptItem(r.vendor, r.amount, r.line_number,
                                         r.confidence, r.raw_text))
                 ELSE parsed_items
          /\ UNCHANGED <<outcome, pc>>
    /\ UNCHANGED <<utilities, config, file, text, lines, calls, amount_call, two_calls, siblings>>

\* lines 317-338: one iteration of the loop over the lines
ParseLineStep ==
    /\ pc = "loop"
    /\ line_num < Len(lines)
    /\ \E n \in {line_num + 1} :
       \E r \in {_parse_line(lines[n], n, patterns, ignore_words)} :
          /\ line_num' = n
          /\ parsed_line' = r
          /\ IF r.found /\ ReceiptItemRaises(r.amount)
             THEN /\ outcome' = Raise("ValueError")
                  /\ pc' = "parse_done"
                  /\ UNCHANGED parsed_items
             ELSE /\ parsed_items' =
                         IF r.found
                         THEN Append(parsed_items,
                                     ReceiptItem(r.vendor, r.amount, r.line_number,
                                                 r.confidence, r.raw_text))
                         ELSE parsed_items
                  /\ UNCHANGED <<outcome, pc>>
    /\ UNCHANGED <<utilities, config, file, text, lines, calls, amount_call, two_calls, siblings>>

\* lines 340-347: the loop is over
ParseReturn ==
    /\ pc = "loop"
    /\ line_num = Len(lines)
    /\ outcome' = Return(parsed_items)
    /\ pc' = "parse_done"
    /\ UNCHANGED <<utilities, config, file, text, locals, calls, amount_call, two_calls, siblings>>

-----------------------------------------------------------------------------
(* ReceiptParsingManager                                                   *)

\* lines 427-428: parse_receipt_text calls self.parser.parse_receipt_text(text);
\* FailingParser is an implementation of ReceiptParserInterface that raises
ManagerParseTextCall ==
    /\ pc = "manager_text_enter"
    /\ calls' = calls + 1
    /\ IF parser = "RegexReceiptParser"
       THEN pc' = "parse_enter" /\ UNCHANGED outcome
       ELSE pc' = "parse_done" /\ outcome' = Raise("RuntimeError")
    /\ UNCHANGED <<utilities, config, file, text, locals, amount_call, two_calls, siblings>>

\* the manager without its  except Exception  clause
ManagerParseTextExit_NoCatchAll ==
    /\ pc = "parse_done"
    /\ entry \in {"manager_text", "manager_file", "legacy"}
    /\ outcome' = IF outcome.kind = "return" THEN outcome
                  ELSE IF outcome.exc = "ValidationError" THEN Raise("ProcessingError")
                  ELSE outcome
    /\ pc' = "manager_text_done"
    /\ UNCHANGED <<utilities, config, file, text, locals, calls, amount_call, two_calls, siblings>>

\* lines 428-433: the parser's result is returned, a ValidationError and any
\* other Exception are replaced by a ProcessingError
ManagerParseTextExit ==
    /\ pc = "parse_done"
    /\ entry \in {"manager_text", "manager_file", "legacy"}
    /\ outcome' = IF outcome.kind = "return" THEN outcome
                  ELSE IF outcome.exc = "ValidationError" THEN Raise("ProcessingError")
                  ELSE Raise("ProcessingError")
    /\ pc' = "manager_text_done"
    /\ UNCHANGED <<utilities, config, file, text, locals, calls, amount_call, two_calls, siblings>>

\* lines 444-451: parse_receipt_file opens and reads the file, then calls
\* self.parse_receipt_text(text)
ManagerParseFileOpen ==
    /\ pc = "manager_file_enter"
    /\ IF file.state = "missing"
       THEN /\ outcome' = Raise("ProcessingError")
            /\ pc' = "manager_file_done"
            /\ UNCHANGED text
       ELSE IF file.state = "unreadable"
       THEN /\ outcome' = Raise("ProcessingError")
            /\ pc' = "manager_file_done"
            /\ UNCHANGED text
       ELSE /\ text' = Str(file.content)
            /\ pc' = "manager_text_enter"
            /\ UNCHANGED outcome
    /\ UNCHANGED <<utilities, config, file, locals, calls, amount_call, two_calls, siblings>>

\* lines 447-451: the result of self.parse_receipt_text is returned; what it
\* raises is caught by  except Exception  and replaced by a ProcessingError
ManagerParseFileExit ==
    /\ pc = "manager_text_done"
    /\ entry = "manager_file"
    /\ outcome' = IF outcome.kind = "return" THEN outcome
                  ELSE Raise("ProcessingError")
    /\ pc' = "manager_file_done"
    /\ UNCHANGED <<utilities, config, file, text, locals, calls, amount_call, two_calls, siblings>>

Next ==
    \/ ParseEnter
    \/ ParseLineStep
    \/ ParseReturn
    \/ ManagerParseTextCall
    \/ ManagerParseTextExit
    \/ ManagerParseFileOpen
    \/ ManagerParseFileExit

Spec == Init /\ [][Next]_vars

\* the call has come back to the caller
Done ==
    \/ entry = "parser" /\ pc = "parse_done"
    \/ entry = "manager_text" /\ pc = "manager_text_done"
    \/ entry = "manager_file" /\ pc = "manager_file_done"
    \/ entry = "legacy" /\ pc = "legacy_done"

-----------------------------------------------------------------------------
(* RegexReceiptParser.parse_receipt_text on single lines                   *)

InitLine ==
    /\ NoTwoCalls
    /\ NoSiblings
    /\ ignore_words \in {default_ignore_words, custom_ignore_words}
    /\ patterns \in {get_default_patterns, custom_patterns}
    /\ InitLocals
    /\ NoUtilities
    /\ amount_str = "" /\ amount_out = NoAmountCall
    /\ entry = "parser" /\ parser = "RegexReceiptParser"
    /\ pc = "parse_enter" /\ file = NoFile
    /\ text \in {Str(l) : l \in SingleLines}

NextLine == ParseEnter \/ ParseLineStep \/ ParseReturn

SpecLine == InitLine /\ [][NextLine]_vars

-----------------------------------------------------------------------------
(* The module-level parse_receipt_text, kept for backward compatibility:   *)
(* a new ReceiptParsingManager parses the text, and the items are returned *)
(* as (vendor, amount_float) tuples.                                       *)

LegacyLines == {"Tea 0.10", "Tea 0.20", "Bun 0.70", "Latte $5.45", "Total: $8.70"}

LegacyTexts ==
    {JoinLines(ls) : ls \in UNION {[1..n -> LegacyLines] : n \in 0..MaxLines}}

InitLegacy ==
    /\ NoTwoCalls
    /\ NoSiblings
    /\ ignore_words \in {default_ignore_words, custom_ignore_words}
    /\ patterns = get_default_patterns
    /\ InitLocals
    /\ NoUtilities
    /\ amount_str = "" /\ amount_out = NoAmountCall
    /\ entry = "legacy" /\ parser = "RegexReceiptParser"
    /\ pc = "manager_text_enter" /\ file = NoFile
    /\ text \in {Str(d) : d \in LegacyTexts} \cup NonStrings

\* ReceiptItem.amount_float: float(self.amount)
amount_float(item) == FloatOf(item.amount)

\* line 466: the list of (item.vendor, item.amount_float); what the manager
\* raises goes on to the caller
LegacyReturn ==
    /\ pc = "manager_text_done"
    /\ entry = "legacy"
    /\ outcome' = IF outcome.kind = "return"
                  THEN Return([k \in 1..Len(outcome.items) |->
                                  <<outcome.items[k].vendor, amount_float(outcome.items[k])>>])
                  ELSE outcome
    /\ pc' = "legacy_done"
    /\ UNCHANGED <<utilities, config, file, text, locals, calls, amount_call, two_calls, siblings>>

NextLegacy ==
    \/ ManagerParseTextCall
    \/ ParseEnter
    \/ ParseLineStep
    \/ ParseReturn
    \/ ManagerParseTextExit
    \/ LegacyReturn

SpecLegacy == InitLegacy /\ [][NextLegacy]_vars

-----------------------------------------------------------------------------
(* AmountParser.parse_amount called directly                               *)

InitAmount ==
    /\ NoTwoCalls
    /\ NoSiblings
    /\ ignore_words = default_ignore_words
    /\ patterns = get_default_patterns
    /\ InitLocals
    /\ NoUtilities
    /\ entry = "parse_amount" /\ parser = "RegexReceiptParser"
    /\ pc = "amount_enter" /\ file = NoFile /\ text = NoText
    /\ amount_str \in AmountStrings
    /\ amount_out = NoAmountCall

\* lines 200-236
ParseAmountCall ==
    /\ pc = "amount_enter"
    /\ amount_out' = parse_amount(amount_str)
    /\ pc' = "amount_done"
    /\ UNCHANGED <<utilities, config, file, text, locals, outcome, calls, amount_str, two_calls, siblings>>

NextAmount == ParseAmountCall

SpecAmount == InitAmount /\ [][NextAmount]_vars

-----------------------------------------------------------------------------
(* Two calls of RegexReceiptParser.parse_receipt_text, on one parser       *)
(* object or on two, one after the other or with their steps interleaved.  *)
(* A call reads self.patterns and self.text_cleaner of its object and its  *)
(* own locals.                                                             *)

\* what RegexReceiptParser.__init__ stores on the object
Instance(ps, words) == [patterns |-> ps, ignore_words |-> words]

InstanceConfigs ==
    {Instance(get_default_patterns, default_ignore_words),
     Instance(custom_patterns, custom_ignore_words)}

\* the frame of a call that has not yet executed a statement
Frame(self, t) ==
    [self |-> self, text |-> t, pc |-> "parse_enter", lines |-> << >>,
     line_num |-> 0, parsed_line |-> NoParsedLine, parsed_items |-> << >>,
     outcome |-> Pending]

\* the texts of the two calls
CallTexts ==
    {Str(JoinLines(<<"Latte $5.45", "Tea 3.25">>)),
     Str(JoinLines(<<"Tea 3.25", "Total: $8.70">>)),
     Str(JoinLines(<<"tip 5", "Latte $5.45">>)),
     Str(JoinLines(<<"XY 9999999.99", "A 5">>)),
     Str("")}
        \cup {[type |-> "int", value |-> ""]}

Other(c) == 3 - c

Running(c) == frames[c].pc = "loop"

InitCalls ==
    /\ NoSiblings
    /\ ignore_words = default_ignore_words
    /\ patterns = get_default_patterns
    /\ InitLocals
    /\ NoUtilities
    /\ amount_str = "" /\ amount_out = NoAmountCall
    /\ entry = "two_calls" /\ parser = "RegexReceiptParser"
    /\ pc = "two_calls" /\ file = NoFile /\ text = NoText
    /\ instances \in [1..2 -> InstanceConfigs]
    /\ frames \in {<<Frame(1, t1), Frame(self2, t2)>> :
                      self2 \in 1..2, t1 \in CallTexts, t2 \in CallTexts}
    /\ interleaved = FALSE

\* the entry with parsed_items kept on the parser object: a call starts from
\* the list the other call on the same object has filled
CallEnter_ItemsOnInstance(c) ==
    /\ pc = "two_calls"
    /\ frames[c].pc = "parse_enter"
    /\ \E f \in {frames[c]} :
          frames' = [frames EXCEPT ![c] =
              IF f.text.type # "str"
              THEN [f EXCEPT !.outcome = Raise("ValidationError"), !.pc = "parse_done"]
              ELSE IF Strip(f.text.value) = ""
              THEN [f EXCEPT !.outcome = Return(<< >>), !.pc = "parse_done"]
              ELSE [f EXCEPT !.lines = SplitLines(f.text.value),
                             !.parsed_items =
                                 IF frames[Other(c)].self = f.self
                                 THEN frames[Other(c)].parsed_items ELSE << >>,
                             !.line_num = 0,
                             !.pc = "loop"]]
    /\ interleaved' = (interleaved \/ Running(Other(c)))
    /\ UNCHANGED <<utilities, config, file, pc, text, locals, outcome, calls, amount_call, instances, siblings>>

\* lines 304-315 in call c
CallEnter(c) ==
    /\ pc = "two_calls"
    /\ frames[c].pc = "parse_enter"
    /\ \E f \in {frames[c]} :
          frames' = [frames EXCEPT ![c] =
              IF f.text.type # "str"
              THEN [f EXCEPT !.outcome = Raise("ValidationError"), !.pc = "parse_done"]
              ELSE IF Strip(f.text.value) = ""
              THEN [f EXCEPT !.outcome = Return(<< >>), !.pc = "parse_done"]
              ELSE [f EXCEPT !.lines = SplitLines(f.text.value),
                             !.parsed_items = << >>,
                             !.line_num = 0,
                             !.pc = "loop"]]
    /\ interleaved' = (interleaved \/ Running(Other(c)))
    /\ UNCHANGED <<utilities, config, file, pc, text, locals, outcome, calls, amount_call, instances, siblings>>

\* the loop body with self.patterns.sort(...) in place of sorted(self.patterns)
CallLineStep_SortsInPlace(c) ==
    /\ pc = "two_calls"
    /\ frames[c].pc = "loop"
    /\ frames[c].line_num < Len(frames[c].lines)
    /\ \E f \in {frames[c]} :
       \E n \in {f.line_num + 1} :
       \E r \in {_parse_line(f.lines[n], n, instances[f.self].patterns,
                             instances[f.self].ignore_words)} :
          /\ frames' = [frames EXCEPT ![c] =
                IF r.found /\ ReceiptItemRaises(r.amount)
                THEN [f EXCEPT !.line_num = n, !.parsed_line = r,
                               !.outcome = Raise("ValueError"), !.pc = "parse_done"]
                ELSE [f EXCEPT !.line_num = n, !.parsed_line = r,
                               !.parsed_items =
                                   IF r.found
                                   THEN Append(f.parsed_items,
                                               ReceiptItem(r.vendor, r.amount,
                                                           r.line_number, r.confidence,
                                                           r.raw_text))
                                   ELSE f.parsed_items]]
          /\ instances' = [instances EXCEPT ![f.self].patterns = SortedByConfidence(@)]
    /\ interleaved' = (interleaved \/ Running(Other(c)))
    /\ UNCHANGED <<utilities, config, file, pc, text, locals, outcome, calls, amount_call, siblings>>

\* the loop body appending to one list that the calls on an object share
CallLineStep_SharedItems(c) ==
    /\ pc = "two_calls"
    /\ frames[c].pc = "loop"
    /\ frames[c].line_num < Len(frames[c].lines)
    /\ \E f \in {frames[c]} :
       \E n \in {f.line_num + 1} :
       \E r \in {_parse_line(f.lines[n], n, instances[f.self].patterns,
                             instances[f.self].ignore_words)} :
       \E items \in {IF r.found
                     THEN <<ReceiptItem(r.vendor, r.amount, r.line_number,
                                        r.confidence, r.raw_text)>>
                     ELSE << >>} :
          frames' = [d \in 1..2 |->
              IF d = c
              THEN [f EXCEPT !.line_num = n, !.parsed_line = r,
                             !.parsed_items = f.parsed_items \o items]
              ELSE IF frames[d].self = f.self /\ Running(d)
              THEN [frames[d] EXCEPT !.parsed_items = @ \o items]
              ELSE frames[d]]
    /\ interleaved' = (interleaved \/ Running(Other(c)))
    /\ UNCHANGED <<utilities, config, file, pc, text, locals, outcome, calls, amount_call, instances, siblings>>

\* lines 317-338 in call c: one iteration of the loop over the lines
CallLineStep(c) ==
    /\ pc = "two_calls"
    /\ frames[c].pc = "loop"
    /\ frames[c].line_num < Len(frames[c].lines)
    /\ \E f \in {frames[c]} :
       \E n \in {f.line_num + 1} :
       \E r \in {_parse_line(f.lines[n], n, instances[f.self].patterns,
                             instances[f.self].ignore_words)} :
          frames' = [frames EXCEPT ![c] =
              IF r.found /\ ReceiptItemRaises(r.amount)
              THEN [f EXCEPT !.line_num = n, !.parsed_line = r,
                             !.outcome = Raise("ValueError"), !.pc = "parse_done"]
              ELSE [f EXCEPT !.line_num = n, !.parsed_line = r,
                             !.parsed_items =
                                 IF r.found
                                 THEN Append(f.parsed_items,
                                             ReceiptItem(r.vendor, r.amount,
                                                         r.line_number, r.confidence,
                                                         r.raw_text))
                                 ELSE f.parsed_items]]
    /\ interleaved' = (interleaved \/ Running(Other(c)))
    /\ UNCHANGED <<utilities, config, file, pc, text, locals, outcome, calls, amount_call, instances, siblings>>

\* lines 340-347 in call c
CallReturn(c) ==
    /\ pc = "two_calls"
    /\ frames[c].pc = "loop"
    /\ frames[c].line_num = Len(frames[c].lines)
    /\ frames' = [frames EXCEPT ![c].outcome = Return(frames[c].parsed_items),
                                ![c].pc = "parse_done"]
    /\ interleaved' = (interleaved \/ Running(Other(c)))
    /\ UNCHANGED <<utilities, config, file, pc, text, locals, outcome, calls, amount_call, instances, siblings>>

NextCalls == \E c \in 1..2 : CallEnter(c) \/ CallLineStep(c) \/ CallReturn(c)

SpecCalls == InitCalls /\ [][NextCalls]_vars

-----------------------------------------------------------------------------
(* A call of smart_parse_receipt(text) of precise_main or of               *)
(* smart_parse_receipt(text, manual_adjustments) of final_main.  The field *)
(* read is history: for every line read, what the filters made of it.      *)

\* the lines of the texts given to smart_parse_receipt
SmartLines ==
    {"Latte 5.45", "latte  $3.25", "Latte 250.00", "Total 8.70", "Card 3.00",
     "Mossland picture ledge A 9.99", "MOSSLAND PICTURE LEDGE B 12,50",
     "Milk 250.00 2.50"}

SmartTexts ==
    {JoinLines(ls) : ls \in UNION {[1..n -> SmartLines] : n \in 0..MaxLines}}

\* manual_adjustments, each amount as Decimal(str(adj['amount'])) reads it
ManualAdjustments ==
    {<< >>,
     <<[name |-> "Refund", amount |-> [neg |-> TRUE, ip |-> 2, fn |-> 50, fd |-> 1]]>>,
     <<[name |-> "Total", amount |-> [neg |-> FALSE, ip |-> 250, fn |-> 0, fd |-> 1]],
       [name |-> "Latte", amount |-> [neg |-> FALSE, ip |-> 1, fn |-> 0, fd |-> 1]]>>}

NoTwoCallsNoReceipt ==
    /\ NoTwoCalls
    /\ receipt = << >>

InitSmart ==
    /\ ignore_words = default_ignore_words
    /\ patterns = get_default_patterns
    /\ InitLocals
    /\ NoUtilities
    /\ amount_str = "" /\ amount_out = NoAmountCall
    /\ entry = "smart_parse_receipt" /\ parser = "RegexReceiptParser"
    /\ pc = "smart" /\ file = NoFile /\ text = NoText
    /\ NoTwoCallsNoReceipt
    /\ smart \in
          {[module |-> mod, text |-> t, manual_adjustments |-> adj, pc |-> "enter",
            lines |-> << >>, i |-> 0, items |-> << >>, seen_items |-> {},
            read |-> << >>, outcome |-> Pending] :
              mod \in {"final_main", "precise_main"}, t \in SmartTexts,
              adj \in ManualAdjustments}
    /\ smart.module = "precise_main" => smart.manual_adjustments = << >>

\* lines 38-40
SmartEnter ==
    /\ pc = "smart"
    /\ smart.pc = "enter"
    /\ smart' = [smart EXCEPT !.lines = SplitNewline(smart.text),
                              !.items = << >>,
                              !.seen_items = {},
                              !.pc = "loop"]
    /\ UNCHANGED <<utilities, config, file, pc, text, locals, outcome, calls, amount_call,
                   two_calls, receipt>>

\* the vendor part of a line, whether the line passes the filters or not
VendorPartOf(raw) == JoinSplit(PunctToSpace(Strip(RemoveAmountToEnd(Strip(raw)))))

\* the loop body with the vendor key put into seen_items before the filters
SmartLineStep_KeySeenFirst ==
    /\ pc = "smart"
    /\ smart.pc = "loop"
    /\ smart.i < Len(smart.lines)
    /\ \E c \in {SmartLine(smart.lines[smart.i + 1], exclude_keywords(smart.module))} :
          smart' = IF ~c.found \/ vendor_key(c.vendor_part) \in smart.seen_items
                   THEN [smart EXCEPT !.i = @ + 1, !.read = Append(@, c),
                                      !.seen_items = @ \cup
                                          {vendor_key(VendorPartOf(smart.lines[smart.i + 1]))}]
                   ELSE [smart EXCEPT !.i = @ + 1, !.read = Append(@, c),
                                      !.seen_items = @ \cup {vendor_key(c.vendor_part)},
                                      !.items = Append(@, SmartItem(c))]
    /\ UNCHANGED <<utilities, config, file, pc, text, locals, outcome, calls, amount_call,
                   two_calls, receipt>>

\* the loop body without the check against seen_items
SmartLineStep_NoDuplicateCheck ==
    /\ pc = "smart"
    /\ smart.pc = "loop"
    /\ smart.i < Len(smart.lines)
    /\ \E c \in {SmartLine(smart.lines[smart.i + 1], exclude_keywords(smart.module))} :
          smart' = IF ~c.found
                   THEN [smart EXCEPT !.i = @ + 1, !.read = Append(@, c)]
                   ELSE [smart EXCEPT !.i = @ + 1, !.read = Append(@, c),
                                      !.seen_items = @ \cup {vendor_key(c.vendor_part)},
                                      !.items = Append(@, SmartItem(c))]
    /\ UNCHANGED <<utilities, config, file, pc, text, locals, outcome, calls, amount_call,
                   two_calls, receipt>>

\* final_main lines 50-114, precise_main lines 51-119: one iteration
SmartLineStep ==
    /\ pc = "smart"
    /\ smart.pc = "loop"
    /\ smart.i < Len(smart.lines)
    /\ \E c \in {SmartLine(smart.lines[smart.i + 1], exclude_keywords(smart.module))} :
          smart' = IF ~c.found \/ vendor_key(c.vendor_part) \in smart.seen_items
                   THEN [smart EXCEPT !.i = @ + 1, !.read = Append(@, c)]
                   ELSE [smart EXCEPT !.i = @ + 1, !.read = Append(@, c),
                                      !.seen_items = @ \cup {vendor_key(c.vendor_part)},
                                      !.items = Append(@, SmartItem(c))]
    /\ UNCHANGED <<utilities, config, file, pc, text, locals, outcome, calls, amount_call,
                   two_calls, receipt>>

\* the return with the manual adjustments checked against seen_items
SmartReturn_ManualDeduplicated ==
    /\ pc = "smart"
    /\ smart.pc = "loop"
    /\ smart.i = Len(smart.lines)
    /\ \E adj \in {SelectSeq(smart.manual_adjustments,
                             LAMBDA a : vendor_key(a.name) \notin smart.seen_items)} :
          smart' = [smart EXCEPT
              !.pc = "done",
              !.outcome =
                  IF \E k \in 1..Len(adj) : ReceiptItemRaises(adj[k].amount)
                  THEN Raise("ValueError")
                  ELSE Return(smart.items \o
                              [k \in 1..Len(adj) |->
                                  ReceiptItem(adj[k].name, adj[k].amount, 0, 100,
                                              "Manual adjustment")])]
    /\ UNCHANGED <<utilities, config, file, pc, text, locals, outcome, calls, amount_call,
                   two_calls, receipt>>

\* final_main lines 119-130, precise_main line 125: the manual adjustments
\* are appended, each a ReceiptItem, and the items are returned
SmartReturn ==
    /\ pc = "smart"
    /\ smart.pc = "loop"
    /\ smart.i = Len(smart.lines)
    /\ \E adj \in {smart.manual_adjustments} :
          smart' = [smart EXCEPT
              !.pc = "done",
              !.outcome =
                  IF \E k \in 1..Len(adj) : ReceiptItemRaises(adj[k].amount)
                  THEN Raise("ValueError")
                  ELSE Return(smart.items \o
                              [k \in 1..Len(adj) |->
                                  ReceiptItem(adj[k].name, adj[k].amount, 0, 100,
                                              "Manual adjustment")])]
    /\ UNCHANGED <<utilities, config, file, pc, text, locals, outcome, calls, amount_call,
                   two_calls, receipt>>

NextSmart == SmartEnter \/ SmartLineStep \/ SmartReturn

SpecSmart == InitSmart /\ [][NextSmart]_vars

-----------------------------------------------------------------------------
(* A Receipt and calls of Receipt.add_item                                 *)

\* the amounts add_item is given
ItemAmounts ==
    {[neg |-> TRUE,  ip |-> 0, fn |-> 1,  fd |-> 2],
     [neg |-> TRUE,  ip |-> 5, fn |-> 0,  fd |-> 0],
     [neg |-> TRUE,  ip |-> 0, fn |-> 0,  fd |-> 2],
     [neg |-> FALSE, ip |-> 0, fn |-> 0,  fd |-> 0],
     [neg |-> FALSE, ip |-> 0, fn |-> 1,  fd |-> 2],
     [neg |-> FALSE, ip |-> 5, fn |-> 45, fd |-> 2]}

ItemVendors == {"Latte", " Tea "}

\* an optional argument that was not given
NotGiven == [given |-> FALSE, value |-> NoAmount]

Given(value) == [given |-> TRUE, value |-> value]

\* no add_item call yet
NoCall == [vendor |-> "", amount |-> NoAmount]

\* the item lists and the total_amount a Receipt is constructed with
InitialItems ==
    {<< >>,
     <<ReceiptItem("Bun", [neg |-> FALSE, ip |-> 0, fn |-> 70, fd |-> 2], 0, 100, "")>>}

InitialTotals == {NotGiven, Given([neg |-> FALSE, ip |-> 99, fn |-> 0, fd |-> 2])}

\* models.py lines 57-70: the dataclass fields and __post_init__; call is the
\* last add_item call and last its outcome, total_given the constructor's
\* argument
Receipt(items, total_amount) ==
    [items |-> items,
     total_amount |-> IF ~total_amount.given
                      THEN DecSum([k \in 1..Len(items) |-> items[k].amount])
                      ELSE total_amount.value,
     total_given |-> total_amount.given,
     call |-> NoCall,
     last |-> Pending]

\* Receipt.item_count
item_count(r) == Len(r.items)

InitReceipt ==
    /\ ignore_words = default_ignore_words
    /\ patterns = get_default_patterns
    /\ InitLocals
    /\ NoUtilities
    /\ amount_str = "" /\ amount_out = NoAmountCall
    /\ entry = "add_item" /\ parser = "RegexReceiptParser"
    /\ pc = "receipt" /\ file = NoFile /\ text = NoText
    /\ NoTwoCalls
    /\ smart = << >>
    /\ receipt \in {Receipt(items, total) : items \in InitialItems, total \in InitialTotals}

\* add_item that keeps the total the receipt had
AddItem_TotalKept(vendor, amount) ==
    /\ pc = "receipt"
    /\ item_count(receipt) < MaxItems
    /\ receipt' =
          IF ReceiptItemRaises(amount)
          THEN [receipt EXCEPT !.call = [vendor |-> vendor, amount |-> amount],
                               !.last = Raise("ValueError")]
          ELSE [receipt EXCEPT !.items = Append(@, ReceiptItem(vendor, amount, 0, 100, "")),
                               !.call = [vendor |-> vendor, amount |-> amount],
                               !.last = Return(<< >>)]
    /\ UNCHANGED <<utilities, config, file, pc, text, locals, outcome, calls, amount_call,
                   two_calls, smart>>

\* add_item that appends before the item is validated
AddItem_AppendsThenValidates(vendor, amount) ==
    /\ pc = "receipt"
    /\ item_count(receipt) < MaxItems
    /\ receipt' =
          LET items == Append(receipt.items, ReceiptItem(vendor, amount, 0, 100, ""))
          IN [receipt EXCEPT !.items = items,
                             !.total_amount =
                                 IF ReceiptItemRaises(amount) THEN @
                                 ELSE DecSum([k \in 1..Len(items) |-> items[k].amount]),
                             !.call = [vendor |-> vendor, amount |-> amount],
                             !.last = IF ReceiptItemRaises(amount)
                                      THEN Raise("ValueError") ELSE Return(<< >>)]
    /\ UNCHANGED <<utilities, config, file, pc, text, locals, outcome, calls, amount_call,
                   two_calls, smart>>

\* models.py lines 82-86: the ReceiptItem is constructed first, and when its
\* __post_init__ raises nothing is appended
AddItem(vendor, amount) ==
    /\ pc = "receipt"
    /\ item_count(receipt) < MaxItems
    /\ receipt' =
          IF ReceiptItemRaises(amount)
          THEN [receipt EXCEPT !.call = [vendor |-> vendor, amount |-> amount],
                               !.last = Raise("ValueError")]
          ELSE LET items == Append(receipt.items, ReceiptItem(vendor, amount, 0, 100, ""))
               IN [receipt EXCEPT !.items = items,
                                  !.total_amount =
                                      DecSum([k \in 1..Len(items) |-> items[k].amount]),
                                  !.call = [vendor |-> vendor, amount |-> amount],
                                  !.last = Return(<< >>)]
    /\ UNCHANGED <<utilities, config, file, pc, text, locals, outcome, calls, amount_call,
                   two_calls, smart>>

NextReceipt == \E vendor \in ItemVendors, amount \in ItemAmounts : AddItem(vendor, amount)

SpecReceipt == InitReceipt /\ [][NextReceipt]_vars

-----------------------------------------------------------------------------
(* TextCleaner.clean_line and TextCleaner.clean_vendor_name called         *)
(* directly, and called again on what they returned                        *)

MaxLineLen == 5

MaxVendorLen == 4

MaxCleanCalls == 2

RECURSIVE StringsOver(_, _)
\* the strings of at most n characters of the alphabet
StringsOver(alphabet, n) ==
    IF n = 0 THEN {""}
    ELSE LET shorter == StringsOver(alphabet, n - 1)
         IN shorter \cup {str \o c : str \in shorter, c \in alphabet}

CleanLineArgs == StringsOver({"a", " ", "!", "$"}, MaxLineLen)

CleanVendorArgs == StringsOver({"a", "B", "1", " ", "!", "_"}, MaxVendorLen)

InitCleaner ==
    /\ ignore_words = default_ignore_words
    /\ patterns = get_default_patterns
    /\ InitLocals
    /\ NoTwoCalls
    /\ NoSiblings
    /\ amount_str = "" /\ amount_out = NoAmountCall
    /\ entry = "text_cleaner" /\ parser = "RegexReceiptParser"
    /\ pc = "cleaner" /\ file = NoFile /\ text = NoText
    /\ batch = << >>
    /\ cleaner \in
          {[method |-> "clean_line", arg |-> a, results |-> << >>] : a \in CleanLineArgs}
             \cup {[method |-> "clean_vendor_name", arg |-> a, results |-> << >>] :
                      a \in CleanVendorArgs}

\* the argument of the next call: the caller's string, then the last result
NextCleanArg ==
    IF cleaner.results = << >> THEN cleaner.arg
    ELSE cleaner.results[Len(cleaner.results)]

\* lines 112-133
CleanLineCall ==
    /\ pc = "cleaner"
    /\ cleaner.method = "clean_line"
    /\ Len(cleaner.results) < MaxCleanCalls
    /\ cleaner' = [cleaner EXCEPT !.results = Append(@, clean_line(NextCleanArg))]
    /\ UNCHANGED <<config, file, pc, text, locals, outcome, calls, amount_call,
                   two_calls, siblings, batch>>

\* lines 135-159
CleanVendorNameCall ==
    /\ pc = "cleaner"
    /\ cleaner.method = "clean_vendor_name"
    /\ Len(cleaner.results) < MaxCleanCalls
    /\ cleaner' = [cleaner EXCEPT !.results = Append(@, clean_vendor_name(NextCleanArg))]
    /\ UNCHANGED <<config, file, pc, text, locals, outcome, calls, amount_call,
                   two_calls, siblings, batch>>

NextCleaner == CleanLineCall \/ CleanVendorNameCall

SpecCleaner == InitCleaner /\ [][NextCleaner]_vars

-----------------------------------------------------------------------------
(* BatchReceiptProcessor.process_all_images over the image files of a      *)
(* directory.  What the OCR gives for an image is part of the environment: *)
(* it raises, or it returns a text.                                        *)

MaxImages == 3

\* the characters of the file names in the order of their code points
CodePointOrder == " -.0123456789ABCDEFGHIJKLMNOPQRSTUVWXYZ_abcdefghijklmnopqrstuvwxyz"

CodePointRank(c) == CHOOSE i \in 1..Len(CodePointOrder) : Char(CodePointOrder, i) = c

RECURSIVE StrLessFrom(_, _, _)
StrLessFrom(a, b, i) ==
    IF i > Len(b) THEN FALSE
    ELSE IF i > Len(a) THEN TRUE
    ELSE IF Char(a, i) # Char(b, i)
         THEN CodePointRank(Char(a, i)) < CodePointRank(Char(b, i))
         ELSE StrLessFrom(a, b, i + 1)

\* a < b for two paths of one directory
StrLess(a, b) == StrLessFrom(a, b, 1)

RECURSIVE SortedList(_)
\* list(set(...)) and sort()
SortedList(S) ==
    IF S = {} THEN << >>
    ELSE LET least == CHOOSE x \in S : \A y \in S \ {x} : StrLess(x, y)
         IN <<least>> \o SortedList(S \ {least})

EndsWith(s, suffix) ==
    Len(suffix) <= Len(s) /\ SubSeq(s, Len(s) - Len(suffix) + 1, Len(s)) = suffix

supported_formats == {".jpg", ".jpeg", ".png", ".tiff", ".bmp"}

upper_case_formats == {".JPG", ".JPEG", ".PNG", ".TIFF", ".BMP"}

\* glob of "*" and the extension: "*" does not match a leading "."
GlobStar(name, ext) == EndsWith(name, ext) /\ Char(name, 1) # "."

\* find_receipt_images, lines 32-55
find_receipt_images(directory) ==
    SortedList({name \in directory :
                   \E ext \in supported_formats \cup upper_case_formats :
                      GlobStar(name, ext)})

\* the image files a directory may hold, and the other files
ImageNames == <<"b.jpg", "B.png", "a.JPG", "c.bmp", "a.jpeg">>

OtherFiles == {"notes.txt", ".x.png"}

Directories ==
    {images \cup OtherFiles : images \in SUBSET {ImageNames[k] : k \in 1..MaxImages}}

\* what extract_text_optimized does for an image
OcrRaises == [raises |-> TRUE, text |-> ""]

OcrText(t) == [raises |-> FALSE, text |-> t]

OcrOutcomes ==
    {OcrRaises, OcrText(""), OcrText(" \n"), OcrText("Total 8.70"),
     OcrText("Latte 5.45")}

RECURSIVE SmartLoop(_, _, _, _)
\* the loop of final_main.smart_parse_receipt from line n on, with the
\* items and the seen_items so far
SmartLoop(ls, n, items, seen_items) ==
    IF n > Len(ls) THEN items
    ELSE LET c == SmartLine(ls[n], final_exclude_keywords) IN
         IF ~c.found \/ vendor_key(c.vendor_part) \in seen_items
         THEN SmartLoop(ls, n + 1, items, seen_items)
         ELSE SmartLoop(ls, n + 1, Append(items, SmartItem(c)),
                        seen_items \cup {vendor_key(c.vendor_part)})

\* final_main.smart_parse_receipt(text), no manual adjustments
smart_parse_receipt(t) == SmartLoop(SplitNewline(t), 1, << >>, {})

ProcessingResult(status, rcpt, error_message, source_file, extracted_text) ==
    [status |-> status, receipt |-> rcpt, error_message |-> error_message,
     source_file |-> source_file, extracted_text |-> extracted_text]

\* process_single_image, lines 57-111: an exception of the OCR, an empty
\* text and an empty item list each give a FAILED result
process_single_image(image_path, ocr) ==
    IF ocr.raises
    THEN ProcessingResult("FAILED", << >>, "exception", image_path, "")
    ELSE IF Strip(ocr.text) = ""
    THEN ProcessingResult("FAILED", << >>, "no text", image_path, "")
    ELSE LET items == smart_parse_receipt(ocr.text) IN
         IF items = << >>
         THEN ProcessingResult("FAILED", << >>, "no items", image_path, ocr.text)
         ELSE ProcessingResult("SUCCESS", Receipt(items, NotGiven), "", image_path,
                               ocr.text)

NotReturned == [success |-> FALSE, total_files |-> 0, successful |-> 0, failed |-> 0,
                receipts |-> << >>, failed_files |-> << >>, returned |-> FALSE]

InitBatch ==
    /\ ignore_words = default_ignore_words
    /\ patterns = get_default_patterns
    /\ InitLocals
    /\ NoTwoCalls
    /\ NoSiblings
    /\ cleaner = << >>
    /\ amount_str = "" /\ amount_out = NoAmountCall
    /\ entry = "process_all_images" /\ parser = "RegexReceiptParser"
    /\ pc = "batch" /\ file = NoFile /\ text = NoText
    /\ \E directory \in Directories :
       \E ocr \in [directory -> OcrOutcomes] :
          /\ \A name \in directory \cap OtherFiles : ocr[name] = OcrRaises
          /\ batch = [directory |-> directory, ocr |-> ocr, results |-> << >>,
                      pc |-> "enter", image_files |-> << >>, k |-> 0,
                      successful_receipts |-> << >>, failed_files |-> << >>,
                      saved |-> << >>, out |-> NotReturned]

\* lines 119-123: the images are looked up; without any the call returns
BatchFind ==
    /\ pc = "batch"
    /\ batch.pc = "enter"
    /\ \E image_files \in {find_receipt_images(batch.directory)} :
          batch' = IF image_files = << >>
                   THEN [batch EXCEPT !.pc = "done",
                                      !.out = [NotReturned EXCEPT !.returned = TRUE]]
                   ELSE [batch EXCEPT !.pc = "loop", !.image_files = image_files]
    /\ UNCHANGED <<config, file, pc, text, locals, outcome, calls, amount_call,
                   two_calls, siblings, cleaner>>

\* the loop body that leaves the loop at the first failed image
BatchImageStep_StopsAtFailure ==
    /\ pc = "batch"
    /\ batch.pc = "loop"
    /\ batch.k < Len(batch.image_files)
    /\ \E image_file \in {batch.image_files[batch.k + 1]} :
       \E result \in {process_single_image(image_file, batch.ocr[image_file])} :
          batch' = IF result.status = "SUCCESS"
                   THEN [batch EXCEPT !.k = @ + 1,
                                      !.results = Append(@, result),
                                      !.successful_receipts = Append(@, result.receipt)]
                   ELSE [batch EXCEPT !.k = Len(batch.image_files),
                                      !.results = Append(@, result),
                                      !.failed_files =
                                          Append(@, [file |-> image_file,
                                                     error |-> result.error_message])]
    /\ UNCHANGED <<config, file, pc, text, locals, outcome, calls, amount_call,
                   two_calls, siblings, cleaner>>

\* lines 129-140: one image is processed, its result is appended to
\* self.results and counted as a success or as a failure
BatchImageStep ==
    /\ pc = "batch"
    /\ batch.pc = "loop"
    /\ batch.k < Len(batch.image_files)
    /\ \E image_file \in {batch.image_files[batch.k + 1]} :
       \E result \in {process_single_image(image_file, batch.ocr[image_file])} :
          batch' = IF result.status = "SUCCESS"
                   THEN [batch EXCEPT !.k = @ + 1,
                                      !.results = Append(@, result),
                                      !.successful_receipts = Append(@, result.receipt)]
                   ELSE [batch EXCEPT !.k = @ + 1,
                                      !.results = Append(@, result),
                                      !.failed_files =
                                          Append(@, [file |-> image_file,
                                                     error |-> result.error_message])]
    /\ UNCHANGED <<config, file, pc, text, locals, outcome, calls, amount_call,
                   two_calls, siblings, cleaner>>

\* lines 142-178: the counts, the export of the successful receipts (a
\* failure of the export is caught in save_batch_results) and the return
BatchReturn ==
    /\ pc = "batch"
    /\ batch.pc = "loop"
    /\ batch.k = Len(batch.image_files)
    /\ \E export_raises \in BOOLEAN :
          batch' = [batch EXCEPT
              !.pc = "done",
              !.saved = IF batch.successful_receipts # << >> /\ ~export_raises
                        THEN batch.successful_receipts ELSE << >>,
              !.out = [success |-> TRUE,
                       total_files |-> Len(batch.image_files),
                       successful |-> Len(batch.successful_receipts),
                       failed |-> Len(batch.failed_files),
                       receipts |-> batch.successful_receipts,
                       failed_files |-> batch.failed_files,
                       returned |-> TRUE]]
    /\ UNCHANGED <<config, file, pc, text, locals, outcome, calls, amount_call,
                   two_calls, siblings, cleaner>>

NextBatch == BatchFind \/ BatchImageStep \/ BatchReturn

SpecBatch == InitBatch /\ [][NextBatch]_vars

-----------------------------------------------------------------------------
(* What the claims speak of                                                *)

\* the line of the last iteration of the loop
CurrentLine == lines[line_num]

\* the pattern's match on the cleaned line gives a non-empty cleaned vendor
\* and an amount that parse_amount accepts
ValidFor(p, cleaned_line) ==
    LET match == Search(p.pattern, cleaned_line) IN
    /\ match.ok
    /\ clean_vendor_name(Group(cleaned_line, match, 1)) # ""
    /\ parse_amount(Group(cleaned_line, match, 2)).ok

\* the pattern matches the cleaned line with a vendor, and parse_amount
\* rejects its amount
AmountRejectedFor(p, cleaned_line) ==
    LET match == Search(p.pattern, cleaned_line) IN
    /\ match.ok
    /\ clean_vendor_name(Group(cleaned_line, match, 1)) # ""
    /\ ~parse_amount(Group(cleaned_line, match, 2)).ok

\* pattern k comes before pattern j: higher confidence, or the same
\* confidence and not later in the list
Precedes(ps, k, j) ==
    \/ ps[j].confidence < ps[k].confidence
    \/ ps[j].confidence = ps[k].confidence /\ k <= j

\* the items one line gives when parsed alone with its line number
ItemsOfLine(line, n) ==
    LET r == _parse_line(line, n, patterns, ignore_words) IN
    IF r.found
    THEN <<ReceiptItem(r.vendor, r.amount, r.line_number, r.confidence, r.raw_text)>>
    ELSE << >>

RECURSIVE ItemsOfLines(_, _)
\* the concatenation over the lines from the n-th on
ItemsOfLines(ls, n) ==
    IF n > Len(ls) THEN << >> ELSE ItemsOfLine(ls[n], n) \o ItemsOfLines(ls, n + 1)

\* parse_receipt_text has returned or raised (to its caller, or the manager)
ParserDone == pc = "parse_done" /\ parser = "RegexReceiptParser"

NonSpaceCount(s) == Cardinality({i \in 1..Len(s) : ~IsSpace(Char(s, i))})

\* C1: the ParsedLine returned for a line carries the name and confidence
\* of a pattern that is valid for the cleaned line and precedes every other
\* valid pattern (higher confidence first, list order among equals).
C1_PatternPrecedence ==
    (pc = "loop" /\ line_num >= 1 /\ parsed_line.found) =>
        LET cleaned_line == clean_line(CurrentLine) IN
        /\ ~should_ignore_line(cleaned_line, ignore_words)
        /\ \E k \in 1..Len(patterns) :
              /\ ValidFor(patterns[k], cleaned_line)
              /\ parsed_line.parse_method = patterns[k].name
              /\ parsed_line.confidence = patterns[k].confidence
              /\ \A j \in 1..Len(patterns) :
                    ValidFor(patterns[j], cleaned_line) => Precedes(patterns, k, j)

\* C1 witness: two patterns of equal confidence are both valid for the line
\* and the one earlier in the list gave the result
C1_Witness ==
    /\ pc = "loop" /\ line_num = 1 /\ parsed_line.found
    /\ \E k, j \in 1..Len(patterns) :
          /\ k < j
          /\ patterns[k].confidence = patterns[j].confidence
          /\ ValidFor(patterns[k], clean_line(CurrentLine))
          /\ ValidFor(patterns[j], clean_line(CurrentLine))
          /\ parsed_line.parse_method = patterns[k].name

\* C2: _parse_line returns None only for an ignorable cleaned line or when
\* no pattern is valid for it: a pattern that matches and fails validation
\* does not keep a valid pattern of lower confidence from giving the result.
C2_NoneOnlyWithoutValidPattern ==
    (pc = "loop" /\ line_num >= 1 /\ ~parsed_line.found) =>
        LET cleaned_line == clean_line(CurrentLine) IN
        \/ should_ignore_line(cleaned_line, ignore_words)
        \/ \A k \in 1..Len(patterns) : ~ValidFor(patterns[k], cleaned_line)

\* C2 witness: a pattern of higher confidence matched with an amount that
\* parse_amount rejects, and a pattern of lower confidence gave the result
C2_Witness ==
    /\ pc = "loop" /\ line_num = 1 /\ parsed_line.found
    /\ \E k \in 1..Len(patterns) :
          /\ AmountRejectedFor(patterns[k], clean_line(CurrentLine))
          /\ patterns[k].confidence > parsed_line.confidence

\* C3: for a string, parse_receipt_text raises nothing and returns the
\* concatenation, in line order, of what each line gives when parsed alone
\* with its own line number.
C3_LinesAreIndependent ==
    (ParserDone /\ text.type = "str") =>
        /\ outcome.kind = "return"
        /\ outcome.items = ItemsOfLines(SplitLines(text.value), 1)

\* C3 witness: the first line did not parse and the second line's item is
\* returned
C3_Witness ==
    /\ ParserDone /\ text.type = "str"
    /\ Len(SplitLines(text.value)) = 2
    /\ ItemsOfLine(SplitLines(text.value)[1], 1) = << >>
    /\ Len(outcome.items) = 1
    /\ outcome.items[1].line_number = 2

\* the claim's properties of a list of items for the lines read so far
InLineOrder(items, ls, upto) ==
    /\ Len(items) <= upto
    /\ upto <= Len(ls)
    /\ \A i \in 1..Len(items) :
          /\ items[i].line_number \in 1..upto
          /\ items[i].raw_text = ls[items[i].line_number]
    /\ \A i, j \in 1..Len(items) :
          i < j => items[i].line_number < items[j].line_number

\* C4: the items are in line order: line numbers are 1-based indexes of the
\* split lines, strictly increasing along the list, at most one item for a
\* line, and never more items than lines.
C4_ItemsInLineOrder ==
    /\ InLineOrder(parsed_items, lines, line_num)
    /\ (outcome.kind = "return" /\ text.type = "str") =>
           InLineOrder(outcome.items, SplitLines(text.value),
                       Len(SplitLines(text.value)))

\* C4 witness: two lines, both giving an item
C4_Witness ==
    /\ ParserDone /\ outcome.kind = "return"
    /\ Len(outcome.items) = 2
    /\ outcome.items[1].line_number = 1
    /\ outcome.items[2].line_number = 2

\* C5: with a non-string argument parse_receipt_text raises a
\* ValidationError at once: no line is processed, no list is returned.
C5_NonStringRaisesAtOnce ==
    (parser = "RegexReceiptParser" /\ text.type \notin {"str", "unset"}) =>
        /\ pc # "loop"
        /\ lines = << >> /\ line_num = 0 /\ parsed_items = << >>
        /\ outcome.kind # "return"
        /\ pc = "parse_done" => outcome = Raise("ValidationError")

\* C5 witness: the parser was called with an int and has raised
C5_Witness ==
    /\ entry = "parser" /\ text.type = "int"
    /\ pc = "parse_done" /\ outcome = Raise("ValidationError")

\* C6: what escapes the manager's parse_receipt_text and parse_receipt_file
\* is a ProcessingError and nothing else, for a non-string text, a missing
\* or unreadable file and a parser raising any exception; the parser is
\* called at most once.
C6_ManagerRaisesOnlyProcessingError ==
    entry \in {"manager_text", "manager_file"} =>
        /\ calls <= 1
        /\ Done =>
              /\ outcome.kind \in {"return", "raise"}
              /\ outcome.kind = "raise" => outcome.exc = "ProcessingError"
              /\ text.type \notin {"str", "unset"} => outcome = Raise("ProcessingError")
              /\ file.state \in {"missing", "unreadable"} =>
                     outcome = Raise("ProcessingError") /\ calls = 0
              /\ (parser = "FailingParser" /\ calls = 1) =>
                     outcome = Raise("ProcessingError")

\* C6 witness: parse_receipt_text of the manager was given a parser that
\* raises an unexpected exception
C6_Witness ==
    /\ Done /\ entry = "manager_text" /\ parser = "FailingParser"
    /\ calls = 1 /\ outcome = Raise("ProcessingError")

\* C7: when no line of a string parses (the empty string, whitespace only,
\* lines that are ignored or match no valid pattern) parse_receipt_text
\* returns the empty list and raises nothing.
C7_NothingParsedGivesEmptyList ==
    (ParserDone /\ text.type = "str"
        /\ \A n \in 1..Len(SplitLines(text.value)) :
              ItemsOfLine(SplitLines(text.value)[n], n) = << >>)
    => outcome = Return(<< >>)

\* C7 witness: the empty string has been parsed
C7_Witness ==
    /\ ParserDone /\ entry = "parser" /\ text = Str("")
    /\ outcome = Return(<< >>)

\* C8 (the claim as stated): a line that holds a configured ignore-keyword,
\* compared without regard to case, is ignored and gives no item.
C8_KeywordOfAnyCaseIgnored ==
    (pc = "loop" /\ line_num >= 1) =>
        \A k \in ignore_words :
            Contains(Lower(CurrentLine), Lower(k)) =>
                /\ should_ignore_line(CurrentLine, ignore_words)
                /\ ~parsed_line.found
                /\ parsed_items = << >>

WithinDefaultRange(v) ==
    /\ ~v.neg \/ DecIsZero(v)
    /\ v.ip >= 1 \/ v.fn * 100 >= Pow10(v.fd)
    /\ v.ip < 10000 \/ (v.ip = 10000 /\ v.fn = 0)

\* C10: parse_amount returns a value only within [min_amount, max_amount],
\* the bounds included, and raises a ValidationError for an empty input, for
\* a cleaned string that is no decimal number and for a value out of range.
C10_AmountWithinRangeOrError ==
    pc = "amount_done" =>
        LET cleaned == _clean_amount_string(amount_str) IN
        IF amount_str # "" /\ DecimalValid(cleaned) /\ WithinDefaultRange(Decimal(cleaned))
        THEN /\ amount_out.ok
             /\ amount_out.amount = Decimal(cleaned)
             /\ WithinDefaultRange(amount_out.amount)
        ELSE /\ ~amount_out.ok
             /\ amount_out.error = "ValidationError"

\* C10 witness: the maximum itself has been parsed and returned
C10_Witness ==
    /\ pc = "amount_done" /\ amount_out.ok
    /\ amount_out.amount.ip = 10000 /\ amount_out.amount.fn = 0

\* the string holds digits, commas and exactly one decimal point
IsPointedAmountString(s) ==
    /\ \A i \in 1..Len(s) : IsDigit(Char(s, i)) \/ Char(s, i) \in {",", "."}
    /\ Cardinality({i \in 1..Len(s) : Char(s, i) = "."}) = 1
    /\ \E i \in 1..Len(s) : IsDigit(Char(s, i))

\* the value the digits of such a string denote, the separators set aside
DenotedValue(s) == Decimal(RemoveAll(s, ","))

\* C11: for a string of digits, thousands-separator commas and a decimal
\* point whose value is within [min_amount, max_amount], parse_amount
\* returns the value the string denotes, and the same value as for the
\* string with its commas removed; with or without a decimal point, the
\* commas never change the result.
C11_CommasDoNotChangeTheValue ==
    pc = "amount_done" =>
        /\ amount_out = parse_amount(RemoveAll(amount_str, ","))
        /\ (IsPointedAmountString(amount_str)
               /\ WithinDefaultRange(DenotedValue(amount_str))) =>
                  /\ amount_out.ok
                  /\ amount_out.amount = DenotedValue(amount_str)

\* C11 witness: "1,234" with a fraction has been parsed to 1234 and the
\* fraction
C11_Witness ==
    /\ pc = "amount_done" /\ amount_out.ok
    /\ IsPointedAmountString(amount_str)
    /\ Contains(amount_str, ",")
    /\ amount_out.amount.ip = 1234 /\ amount_out.amount.fn = 99

\* the items of the lines from the n-th on, for a given configuration
RECURSIVE ItemsAlone(_, _, _)
ItemsAlone(ls, n, inst) ==
    IF n > Len(ls) THEN << >>
    ELSE LET r == _parse_line(ls[n], n, inst.patterns, inst.ignore_words) IN
         (IF r.found
          THEN <<ReceiptItem(r.vendor, r.amount, r.line_number, r.confidence, r.raw_text)>>
          ELSE << >>) \o ItemsAlone(ls, n + 1, inst)

\* what one call returns or raises when nothing else runs
ResultAlone(t, inst) ==
    IF t.type # "str" THEN Raise("ValidationError")
    ELSE IF Strip(t.value) = "" THEN Return(<< >>)
    ELSE Return(ItemsAlone(SplitLines(t.value), 1, inst))

BothDone == pc = "two_calls" /\ frames[1].pc = "parse_done" /\ frames[2].pc = "parse_done"

\* C12: two calls of parse_receipt_text with the same text, on one parser
\* object or on two objects constructed alike, return identical lists
\* (vendors, amounts, line numbers, confidences, raw texts, in the same
\* order), or raise alike; a call never changes the parser object.
C12_SameTextSameItems ==
    pc = "two_calls" =>
        /\ instances \in [1..2 -> InstanceConfigs]
        /\ (BothDone /\ frames[1].text = frames[2].text
              /\ instances[frames[1].self] = instances[frames[2].self]) =>
                 frames[1].outcome = frames[2].outcome

\* C12 witness: the second call ran after the first had returned, on the
\* same parser object and the same text, and both returned two items
C12_Witness ==
    /\ BothDone /\ ~interleaved
    /\ frames[1].self = frames[2].self
    /\ frames[1].text = frames[2].text
    /\ frames[1].outcome.kind = "return"
    /\ Len(frames[1].outcome.items) = 2
    /\ frames[2].outcome = frames[1].outcome

\* C19: two calls whose steps are interleaved in any order, on two parser
\* objects or on one, each return (or raise) exactly what they would when
\* run alone, and a step of one call changes nothing of the other call or
\* of a parser object.
C19_InterleavedCallsAsAlone ==
    pc = "two_calls" =>
        /\ instances \in [1..2 -> InstanceConfigs]
        /\ \A c \in 1..2 :
              /\ frames[c].pc = "parse_done" =>
                     frames[c].outcome = ResultAlone(frames[c].text, instances[frames[c].self])
              /\ frames[c].pc = "loop" =>
                     frames[c].parsed_items =
                         ItemsAlone(SubSeq(frames[c].lines, 1, frames[c].line_num), 1,
                                    instances[frames[c].self])

\* C19 witness: two calls on one parser object ran interleaved on different
\* texts, and each returned its own items
C19_Witness ==
    /\ BothDone /\ interleaved
    /\ frames[1].self = frames[2].self
    /\ frames[1].text # frames[2].text
    /\ frames[1].outcome.kind = "return" /\ Len(frames[1].outcome.items) = 2
    /\ frames[2].outcome.kind = "return" /\ Len(frames[2].outcome.items) = 1

\* the lines read so far that pass every filter but the duplicate check
PassingLines == {n \in 1..smart.i : smart.read[n].found}

KeyOfLine(n) == vendor_key(smart.read[n].vendor_part)

\* the earliest passing line with the vendor key of line n
FirstWithKey(n) ==
    CHOOSE m \in PassingLines :
        /\ KeyOfLine(m) = KeyOfLine(n)
        /\ \A k \in PassingLines : KeyOfLine(k) = KeyOfLine(n) => m <= k

\* C13: in smart_parse_receipt of final_main and of precise_main, the lines
\* that pass every other filter and share a vendor key (the first 20
\* characters of the lower-cased vendor part) give exactly one item, the
\* item of the earliest of them, whatever their amounts; no two auto-parsed
\* items have the same vendor key.
C13_OneItemForAVendorKey ==
    (pc = "smart" /\ smart.pc = "done") =>
        /\ \A i, j \in 1..Len(smart.items) :
              i # j => vendor_key(smart.items[i].vendor) # vendor_key(smart.items[j].vendor)
        /\ \A n \in PassingLines :
              LET same == {i \in 1..Len(smart.items) :
                              vendor_key(smart.items[i].vendor) = KeyOfLine(n)}
              IN /\ Cardinality(same) = 1
                 /\ \A i \in same :
                       /\ smart.items[i].raw_text = Strip(smart.lines[FirstWithKey(n)])
                       /\ smart.items[i].amount =
                              DecimalOfStr(smart.read[FirstWithKey(n)].amount)
        /\ Len(smart.items) <= Cardinality(PassingLines)

\* C13 witness: two lines with one vendor key and different amounts have
\* been read, and the only item is that of the first
C13_Witness ==
    /\ pc = "smart" /\ smart.pc = "done"
    /\ PassingLines = {1, 2}
    /\ KeyOfLine(1) = KeyOfLine(2)
    /\ smart.read[1].amount # smart.read[2].amount
    /\ Len(smart.items) = 1
    /\ smart.items[1].raw_text = smart.lines[1]

\* every list of ReceiptItems there is: of the parser, of the two calls, of
\* the sibling parser, of the Receipt
ItemLists ==
    {parsed_items, outcome.items}
        \cup (IF pc = "two_calls"
              THEN UNION {{frames[c].parsed_items, frames[c].outcome.items} : c \in 1..2}
              ELSE {})
        \cup (IF pc = "smart" THEN {smart.items, smart.outcome.items} ELSE {})
        \cup (IF pc = "receipt" THEN {receipt.items} ELSE {})

\* C14: no ReceiptItem has a negative amount: add_item with an amount below
\* zero raises and leaves the Receipt as it was, and no list of items of a
\* parser or of a Receipt holds an item with a negative amount.
C14_NoNegativeAmount ==
    /\ \A items \in ItemLists : \A k \in 1..Len(items) :
          ~DecLess(items[k].amount, DecSum(<< >>))
    /\ pc = "receipt" =>
          /\ ~receipt.total_amount.neg
          /\ receipt.last.kind = "raise" => receipt.last.exc = "ValueError"

\* the Receipt is left as it was by an add_item that raises
C14_Witness ==
    /\ pc = "receipt"
    /\ receipt.last = Raise("ValueError")
    /\ Len(receipt.items) = 2

\* the item is what the first valid pattern, in order of precedence, makes
\* of the cleaned line
FromWinningPattern(item, line) ==
    LET cleaned_line == clean_line(line) IN
    \E k \in 1..Len(patterns) :
       LET match == Search(patterns[k].pattern, cleaned_line) IN
       /\ ValidFor(patterns[k], cleaned_line)
       /\ \A j \in 1..Len(patterns) :
             ValidFor(patterns[j], cleaned_line) => Precedes(patterns, k, j)
       /\ item.confidence = patterns[k].confidence
       /\ item.vendor = clean_vendor_name(Group(cleaned_line, match, 1))
       /\ item.amount = parse_amount(Group(cleaned_line, match, 2)).amount

\* C15: every ReceiptItem of parse_receipt_text has a non-empty vendor with
\* no whitespace at its ends, an amount within [min_amount, max_amount], the
\* confidence, vendor and amount of the winning pattern, the number of its
\* line, and as raw_text the line as it was given, not the cleaned line.
C15_ItemCarriesParsedLine ==
    /\ \A k \in 1..Len(parsed_items) :
          LET item == parsed_items[k] IN
          /\ item.line_number \in 1..line_num
          /\ item.vendor # "" /\ Strip(item.vendor) = item.vendor
          /\ WithinDefaultRange(item.amount)
          /\ item.raw_text = lines[item.line_number]
          /\ item.category = ""
          /\ FromWinningPattern(item, lines[item.line_number])
    /\ (pc = "loop" /\ line_num >= 1 /\ parsed_line.found) =>
          parsed_items[Len(parsed_items)] =
              [vendor |-> parsed_line.vendor, amount |-> parsed_line.amount,
               category |-> "", line_number |-> line_num,
               confidence |-> parsed_line.confidence, raw_text |-> CurrentLine]
    /\ (ParserDone /\ outcome.kind = "return") => outcome.items = parsed_items

\* C15 witness: an item has been returned for a line that its cleaning
\* changes
C15_Witness ==
    /\ ParserDone /\ outcome.kind = "return" /\ Len(outcome.items) = 1
    /\ outcome.items[1].raw_text = text.value
    /\ clean_line(text.value) # text.value

\* C16: the text of the three lines "Grande Latte      $5.45",
\* "Blueberry Muffin  $3.25", "Total:            $8.70" gives exactly two
\* items, ("Grande Latte", 5.45) of line 1 and ("Blueberry Muffin", 3.25) of
\* line 2, in this order; the third line gives none because it holds the
\* ignore word "total".
C16_DemoReceiptGivesTwoItems ==
    (ParserDone /\ text = Str(JoinLines(demo_receipt_1))
        /\ ignore_words = default_ignore_words) =>
        /\ outcome.kind = "return"
        /\ Len(outcome.items) = 2
        /\ outcome.items[1].vendor = "Grande Latte"
        /\ outcome.items[1].amount = [neg |-> FALSE, ip |-> 5, fn |-> 45, fd |-> 2]
        /\ outcome.items[1].line_number = 1
        /\ outcome.items[2].vendor = "Blueberry Muffin"
        /\ outcome.items[2].amount = [neg |-> FALSE, ip |-> 3, fn |-> 25, fd |-> 2]
        /\ outcome.items[2].line_number = 2
        /\ should_ignore_line(clean_line(demo_receipt_1[3]), ignore_words)
        /\ ~should_ignore_line(clean_line(demo_receipt_1[3]), ignore_words \ {"total"})
        /\ \E p \in 1..Len(patterns) : ValidFor(patterns[p], clean_line(demo_receipt_1[3]))

\* C16 witness: the three lines have been parsed with the default ignore
\* words
C16_Witness ==
    /\ ParserDone /\ text = Str(JoinLines(demo_receipt_1))
    /\ ignore_words = default_ignore_words
    /\ line_num = 3
    /\ Len(outcome.items) = 2

\* the amount the pattern captures on the cleaned line is a number above
\* the maximum (read off the digits, without parse_amount)
CapturesAboveMax(p, cleaned_line) ==
    LET match   == Search(p.pattern, cleaned_line)
        cleaned == _clean_amount_string(Group(cleaned_line, match, 2))
    IN /\ match.ok
       /\ clean_vendor_name(Group(cleaned_line, match, 1)) # ""
       /\ DecimalValid(cleaned)
       /\ DecLess(max_amount, Decimal(cleaned))

\* the line is not ignored, some pattern captures an amount on it, and
\* every amount a pattern captures on it with a vendor is above the maximum
OnlyAmountsAboveMax(line) ==
    LET cleaned_line == clean_line(line) IN
    /\ ~should_ignore_line(cleaned_line, ignore_words)
    /\ \E k \in 1..Len(patterns) : CapturesAboveMax(patterns[k], cleaned_line)
    /\ \A k \in 1..Len(patterns) :
          LET match == Search(patterns[k].pattern, cleaned_line) IN
          (match.ok /\ clean_vendor_name(Group(cleaned_line, match, 1)) # "")
              => CapturesAboveMax(patterns[k], cleaned_line)

\* the sequence without its n-th element
Without(ls, n) == SubSeq(ls, 1, n - 1) \o SubSeq(ls, n + 1, Len(ls))

\* the items without their line numbers
Unnumbered(items) ==
    [k \in 1..Len(items) |->
        <<items[k].vendor, items[k].amount, items[k].confidence, items[k].raw_text>>]

\* C17: a line whose only candidate amounts are above the maximum (as
\* "XY 9999999.99" with the maximum 10000.00) gives no item and no error
\* reaches the caller, of the parser or of the manager; the items of the
\* text are, line numbers apart, those of the text without this line.
C17_LineAboveMaxIsSkipped ==
    (text.type = "str" /\ parser = "RegexReceiptParser") =>
        LET ls == SplitLines(text.value) IN
        \A n \in 1..Len(ls) :
           OnlyAmountsAboveMax(ls[n]) =>
              /\ outcome.kind # "raise"
              /\ \A k \in 1..Len(parsed_items) : parsed_items[k].line_number # n
              /\ (pc = "loop" /\ line_num = n) => ~parsed_line.found
              /\ outcome.kind = "return" =>
                    Unnumbered(outcome.items)
                        = Unnumbered(ItemsOfLines(Without(ls, n), 1))

\* C17 witness: "XY 9999999.99" was the first of two lines, and the item of
\* the second line has been returned
C17_Witness ==
    /\ Done /\ text.type = "str" /\ outcome.kind = "return"
    /\ Len(lines) = 2
    /\ lines[1] = "XY 9999999.99"
    /\ OnlyAmountsAboveMax(lines[1])
    /\ Len(outcome.items) = 1
    /\ outcome.items[1].line_number = 2

RECURSIVE FloatSum(_)
\* sum(...) of floats: 0 + x1 + x2 + ...
FloatSum(xs) ==
    IF xs = << >> THEN FloatZero
    ELSE FloatAdd(FloatSum(SubSeq(xs, 1, Len(xs) - 1)), xs[Len(xs)])

\* C18 (the claim as stated, for the legacy parse_receipt_text): the amounts
\* returned are the exact decimals of the printed amounts, so their sum is
\* the exact decimal sum of the printed amounts (here: is the float nearest
\* to it, which is the most a float can be).
C18_SumIsExactDecimalSum ==
    (entry = "legacy" /\ pc = "legacy_done" /\ outcome.kind = "return") =>
        /\ Len(outcome.items) = Len(parsed_items)
        /\ FloatSum([k \in 1..Len(outcome.items) |-> outcome.items[k][2]])
               = FloatOf(DecSum([k \in 1..Len(parsed_items) |-> parsed_items[k].amount]))

\* a description, then a whole-dollar amount of the digits d, with or
\* without a leading $
IsWholeDollarLine(line, d) ==
    /\ IsDigitStr(d)
    /\ \E sp \in {" ", "  ", " $"} : line = "Ab" \o sp \o d

\* C20 (the claim as stated): a description followed by a whole-dollar
\* amount of 1 to 5 digits whose value N lies within [min_amount,
\* max_amount] gives an item whose amount is N dollars.
C20_WholeDollarAmountIsNDollars ==
    (pc = "loop" /\ line_num >= 1) =>
        \A d \in IntParts :
            (/\ IsWholeDollarLine(CurrentLine, d)
             /\ DigitsVal(d) >= 1 /\ DigitsVal(d) <= max_amount.ip) =>
                /\ parsed_line.found
                /\ Len(parsed_items) = 1
                /\ DecEq(parsed_items[1].amount,
                         [neg |-> FALSE, ip |-> DigitsVal(d), fn |-> 0, fd |-> 0])

\* the amount string without "$", "USD", surrounding whitespace and commas
BareAmount(s) == RemoveAll(Strip(RemoveAll(RemoveAll(s, "$"), "USD")), ",")

\* no decimal point, 3 or 4 characters, the last two of them digits
HasImpliedCents(b) ==
    /\ \A i \in 1..Len(b) : Char(b, i) # "."
    /\ Len(b) \in {3, 4}
    /\ IsDigit(Char(b, Len(b) - 1)) /\ IsDigit(Char(b, Len(b)))

\* r is b with a decimal point put in two characters from the end
PointTwoFromEnd(r, b) ==
    /\ Len(r) = Len(b) + 1
    /\ Char(r, Len(r) - 2) = "."
    /\ \A i \in 1..Len(b) : Char(b, i) = Char(r, IF i <= Len(b) - 2 THEN i ELSE i + 1)

\* C21: the implied-cents rewrite applies exactly to a bare amount string
\* without a decimal point, 3 or 4 characters long and ending in two digits,
\* and then puts a decimal point two digits from the end ("123" is 1.23,
\* "1234" is 12.34); every other string is left as it is, and parse_amount
\* works on the result.
C21_ImpliedCentsExactlyFor3Or4 ==
    pc = "amount_done" =>
        LET b == BareAmount(amount_str)
            r == _clean_amount_string(amount_str)
        IN /\ IF HasImpliedCents(b) THEN PointTwoFromEnd(r, b) ELSE r = b
           /\ (HasImpliedCents(b) /\ IsDigitStr(b)) =>
                 /\ DecimalValid(r)
                 /\ DecEq(Decimal(r), [neg |-> FALSE, ip |-> DigitsVal(b) \div 100,
                                       fn |-> DigitsVal(b) % 100, fd |-> 2])
           /\ amount_out.ok => amount_out.amount = Decimal(r)
           /\ (amount_str # "" /\ ~HasImpliedCents(b) /\ DecimalValid(b)
                  /\ WithinDefaultRange(Decimal(b))) =>
                     amount_out.ok /\ amount_out.amount = Decimal(b)

\* C21 witness: "1,234" has been parsed to 12.34, and a five-digit string
\* would have been left alone
C21_Witness ==
    /\ pc = "amount_done" /\ amount_out.ok
    /\ BareAmount(amount_str) = "1234"
    /\ amount_out.amount.ip = 12 /\ amount_out.amount.fn = 34
    /\ _clean_amount_string("10000") = "10000"

\* no two neighbouring characters of s are both whitespace
NoWhitespaceRun(s) ==
    \A i \in 1..(Len(s) - 1) : ~(IsSpace(Char(s, i)) /\ IsSpace(Char(s, i + 1)))

\* C22 (the claim as stated): what clean_line returns holds only word
\* characters, whitespace and "$", ".", ",", "-", has no two "$" in a row, no
\* leading or trailing whitespace and no run of whitespace, and clean_line
\* returns it unchanged.
C22_CleanLineIsNormalForm ==
    (cleaner # << >> /\ cleaner.method = "clean_line") =>
        \A k \in 1..Len(cleaner.results) :
            LET out == cleaner.results[k] IN
            /\ \A i \in 1..Len(out) : IsKeptChar(Char(out, i))
            /\ \A i \in 1..(Len(out) - 1) : ~(Char(out, i) = "$" /\ Char(out, i + 1) = "$")
            /\ out = Strip(out)
            /\ NoWhitespaceRun(out)
            /\ k > 1 => out = cleaner.results[k - 1]

\* C23 (the claim as stated): what clean_vendor_name returns has its
\* whitespace collapsed, does not end with a punctuation character, does not
\* begin with a digit or a symbol, is title-cased, and clean_vendor_name
\* returns it unchanged.
C23_CleanVendorNameIsNormalForm ==
    (cleaner # << >> /\ cleaner.method = "clean_vendor_name") =>
        \A k \in 1..Len(cleaner.results) :
            LET out == cleaner.results[k] IN
            /\ out = Strip(out) /\ NoWhitespaceRun(out)
            /\ out # "" => IsWord(Char(out, Len(out)))
            /\ out # "" => (IsWord(Char(out, 1)) /\ ~IsDigit(Char(out, 1)))
            /\ out = Title(out)
            /\ k > 1 => out = cleaner.results[k - 1]

\* the line has no letter and no underscore: digits, symbols, whitespace
NoLetterNoUnderscore(line) ==
    \A i \in 1..Len(line) : ~IsAlpha(Char(line, i)) /\ Char(line, i) # "_"

\* C24: should_ignore_line is true for a line that is empty after trimming
\* and for a line of digits, symbols and whitespace only, raw or cleaned, so
\* that a line holding only an amount gives no ReceiptItem.
C24_AmountOnlyLineIgnored ==
    (pc = "loop" /\ line_num >= 1 /\ NoLetterNoUnderscore(CurrentLine)) =>
        /\ should_ignore_line(CurrentLine, ignore_words)
        /\ should_ignore_line(clean_line(CurrentLine), ignore_words)
        /\ ~parsed_line.found
        /\ parsed_items = << >>

\* C24 witness: a line of digits and "$" that an amount pattern matches with
\* a vendor group and an amount in range has been processed and dropped
C24_Witness ==
    /\ pc = "loop" /\ line_num = 1
    /\ NoLetterNoUnderscore(CurrentLine)
    /\ Contains(CurrentLine, "$")
    /\ \E k \in 1..Len(patterns) :
          LET match == Search(patterns[k].pattern, clean_line(CurrentLine)) IN
          /\ match.ok
          /\ parse_amount(Group(clean_line(CurrentLine), match, 2)).ok
    /\ ~parsed_line.found

\* C25: no step of a parse_receipt_text call changes the patterns of a
\* parser: the list keeps its elements, their order, and each pattern its
\* name and confidence, also for an injected list not sorted by confidence.
C25_PatternsNeverMutated ==
    [][\A k \in 1..Len(instances) :
          /\ instances'[k].patterns = instances[k].patterns
          /\ \A j \in 1..Len(instances[k].patterns) :
                /\ instances'[k].patterns[j].name = instances[k].patterns[j].name
                /\ instances'[k].patterns[j].confidence
                      = instances[k].patterns[j].confidence]_vars

\* C25 witness: two calls on one parser whose injected list is not sorted by
\* confidence have both returned, the first with items, and the list is
\* still the injected one
C25_Witness ==
    /\ pc = "two_calls"
    /\ frames[1].pc = "parse_done" /\ frames[2].pc = "parse_done"
    /\ frames[2].self = 1
    /\ instances[1].patterns = custom_patterns
    /\ SortedByConfidence(custom_patterns) # custom_patterns
    /\ frames[1].parsed_items # << >>
    /\ frames[2].parsed_items # << >>

\* the amount in hundredths, for an amount with at most two decimals
Hundredths(a) == a.ip * 100 + a.fn * Pow10(2 - a.fd)

RECURSIVE HundredthsOfItems(_, _)
\* the hundredths of the first n items together
HundredthsOfItems(items, n) ==
    IF n = 0 THEN 0 ELSE HundredthsOfItems(items, n - 1) + Hundredths(items[n].amount)

\* a step is a successful add_item call
AddItemReturned == receipt' # receipt /\ receipt'.last.kind = "return"

\* C26: a Receipt constructed without a total_amount has, after construction
\* and after every add_item, a total_amount equal to the sum of the amounts
\* of its items (0 without items) and an item_count equal to their number;
\* a successful add_item appends one item at the end and keeps the others.
C26_TotalIsSumOfItems ==
    /\ [](pc = "receipt" /\ ~receipt.total_given =>
             /\ ~receipt.total_amount.neg
             /\ Hundredths(receipt.total_amount)
                   = HundredthsOfItems(receipt.items, Len(receipt.items))
             /\ receipt.items = << >> => DecIsZero(receipt.total_amount)
             /\ item_count(receipt) = Cardinality(DOMAIN receipt.items))
    /\ [][AddItemReturned =>
             /\ item_count(receipt') = item_count(receipt) + 1
             /\ SubSeq(receipt'.items, 1, item_count(receipt)) = receipt.items
             /\ receipt'.items[item_count(receipt')].amount = receipt'.call.amount
             /\ receipt'.items[item_count(receipt')].vendor = Strip(receipt'.call.vendor)]_vars

\* C26 witness: a receipt constructed with one item and no total has taken
\* two more items
C26_Witness ==
    /\ pc = "receipt" /\ ~receipt.total_given
    /\ item_count(receipt) = 3
    /\ receipt.items[1].vendor = "Bun"
    /\ receipt.last.kind = "return"
    /\ ~DecIsZero(receipt.items[3].amount)

\* C27: add_item with a negative amount raises and leaves the items, the
\* item_count and the total_amount as they were.
C27_FailedAddItemChangesNothing ==
    [][(pc = "receipt" /\ DecLess(receipt'.call.amount, NoAmount)) =>
          /\ receipt'.last = Raise("ValueError")
          /\ receipt'.items = receipt.items
          /\ item_count(receipt') = item_count(receipt)
          /\ receipt'.total_amount = receipt.total_amount]_vars

\* C27 witness: add_item with a negative amount has failed on a receipt
\* that holds items
C27_Witness ==
    /\ pc = "receipt"
    /\ receipt.call.amount.neg /\ ~DecIsZero(receipt.call.amount)
    /\ receipt.last.kind = "raise"
    /\ item_count(receipt) >= 1
    /\ ~DecIsZero(receipt.total_amount)

RECURSIVE SmartItemsOf(_, _, _)
\* what smart_parse_receipt returns for the first n lines when called
\* without manual adjustments, with a seen set of its own
SmartItemsOf(ls, n, keywords) ==
    IF n = 0 THEN << >>
    ELSE LET earlier == SmartItemsOf(ls, n - 1, keywords)
             c == SmartLine(ls[n], keywords)
         IN IF /\ c.found
               /\ \A i \in 1..Len(earlier) :
                     vendor_key(earlier[i].vendor) # vendor_key(c.vendor_part)
            THEN Append(earlier, SmartItem(c))
            ELSE earlier

FirstPassingOfItsKey(n) ==
    /\ n \in PassingLines
    /\ \A m \in PassingLines : m < n => KeyOfLine(m) # KeyOfLine(n)

\* C29: when smart_parse_receipt has read its lines, the seen set holds
\* exactly the vendor keys of the items, so a line rejected by a filter suppresses
\* nothing: the first line that passes all filters for a key gives the item
\* of that key.
C29_RejectedLineSuppressesNothing ==
    (pc = "smart" /\ smart.pc = "done") =>
        /\ smart.seen_items
              = {vendor_key(smart.items[i].vendor) : i \in 1..Len(smart.items)}
        /\ \A n \in 1..smart.i :
              FirstPassingOfItsKey(n) =>
                  \E i \in 1..Len(smart.items) :
                     /\ smart.items[i].raw_text = Strip(smart.lines[n])
                     /\ vendor_key(smart.items[i].vendor) = KeyOfLine(n)
                     /\ smart.items[i].amount = DecimalOfStr(smart.read[n].amount)

\* C29 witness: the first line was rejected for its amount, the second line
\* has the same vendor key, passes and is the item
C29_Witness ==
    /\ pc = "smart" /\ smart.pc = "done"
    /\ Len(smart.lines) = 2
    /\ ~SmartLine(smart.lines[1], exclude_keywords(smart.module)).found
    /\ SmartLine(smart.lines[2], exclude_keywords(smart.module)).found
    /\ vendor_key(VendorPartOf(smart.lines[1])) = vendor_key(VendorPartOf(smart.lines[2]))
    /\ Len(smart.items) = 1
    /\ smart.items[1].raw_text = smart.lines[2]

\* the image files of the directory, told by their names
ImagesIn(directory) == directory \cap {ImageNames[k] : k \in 1..Len(ImageNames)}

\* the OCR raises, gives no text, or gives a text without any item
ImageFails(name) ==
    LET ocr == batch.ocr[name]
        ls == SplitNewline(ocr.text)
    IN \/ ocr.raises
       \/ \A i \in 1..Len(ocr.text) : IsSpace(Char(ocr.text, i))
       \/ SmartItemsOf(ls, Len(ls), final_exclude_keywords) = << >>

\* C30: process_all_images on a directory with images processes every
\* image once, in sorted order, and appends one ProcessingResult for each;
\* an exception, an empty OCR text or an empty item list gives a FAILED
\* result and the loop goes on; a SUCCESS result carries a receipt with at
\* least one item; and successful + failed = total_files.
C30_EveryImageOnceInOrder ==
    (pc = "batch" /\ batch.pc \in {"loop", "done"} /\ ImagesIn(batch.directory) # {}) =>
        /\ {batch.image_files[j] : j \in 1..Len(batch.image_files)}
              = ImagesIn(batch.directory)
        /\ \A j \in 1..(Len(batch.image_files) - 1) :
              StrLess(batch.image_files[j], batch.image_files[j + 1])
        /\ Len(batch.results) = batch.k
        /\ \A j \in 1..batch.k :
              LET result == batch.results[j] IN
              /\ result.source_file = batch.image_files[j]
              /\ result.status \in {"SUCCESS", "FAILED"}
              /\ ImageFails(batch.image_files[j]) => result.status = "FAILED"
              /\ result.status = "SUCCESS" =>
                    /\ result.receipt # << >>
                    /\ Len(result.receipt.items) >= 1
        /\ batch.pc = "done" =>
              /\ batch.k = Len(batch.image_files)
              /\ batch.out.returned /\ batch.out.success
              /\ batch.out.total_files = Cardinality(ImagesIn(batch.directory))
              /\ batch.out.successful + batch.out.failed = batch.out.total_files
              /\ batch.out.successful
                    = Cardinality({j \in 1..batch.k : batch.results[j].status = "SUCCESS"})
              /\ batch.out.failed
                    = Cardinality({j \in 1..batch.k : batch.results[j].status = "FAILED"})

\* C30 witness: three images were processed: the OCR raised for one, one
\* had no item, and the last one, after them, succeeded
C30_Witness ==
    /\ pc = "batch" /\ batch.pc = "done"
    /\ Len(batch.results) = 3
    /\ \E j \in 1..2 : batch.ocr[batch.image_files[j]].raises
    /\ \E j \in 1..2 : batch.results[j].error_message = "no items"
    /\ batch.results[3].status = "SUCCESS"
    /\ batch.out.successful = 1 /\ batch.out.failed = 2

=============================================================================
